---- MODULE Spec2Model ----
(***************************************************************************)
(* s3fs: a hierarchical filesystem facade over a flat object store.        *)
(*                                                                         *)
(* Strings (paths, keys) are sequences of one-character strings, so that   *)
(* path.Clean, path.Join, path.Base and the byte order of keys are         *)
(* computed, not assumed.                                                  *)
(***************************************************************************)
EXTENDS Integers, Sequences, FiniteSets, TLC

(***************************************************************************)
(* Strings                                                                 *)
(***************************************************************************)

\* Byte value of a character (ASCII); keys are listed in this order.
Ord(c) ==
  CASE c = "-" -> 45
    [] c = "." -> 46
    [] c = "/" -> 47
    [] c = "a" -> 97
    [] c = "b" -> 98
    [] c = "c" -> 99
    [] c = "d" -> 100
    [] c = "e" -> 101
    [] c = "k" -> 107
    [] c = "p" -> 112
    [] OTHER -> 120

Min2(a, b) == IF a < b THEN a ELSE b

\* F applied to e: binds the value of e to the parameter of F, so that it
\* is written, and evaluated, once.
Let(e, F(_)) == F(e)

\* Go's s < t on strings: byte-wise lexicographic order.
StrLess(s, t) ==
  \/ \E i \in 1..Min2(Len(s), Len(t)) :
        /\ Ord(s[i]) < Ord(t[i])
        /\ \A j \in 1..(i - 1) : s[j] = t[j]
  \/ /\ Len(s) < Len(t)
     /\ \A j \in 1..Len(s) : s[j] = t[j]

HasPrefix(s, p) == Len(p) <= Len(s) /\ SubSeq(s, 1, Len(p)) = p

HasSuffix(s, p) == Len(p) <= Len(s) /\ SubSeq(s, Len(s) - Len(p) + 1, Len(s)) = p

RECURSIVE TrimLeft(_, _)
TrimLeft(s, c) == IF s # <<>> /\ Head(s) = c THEN TrimLeft(Tail(s), c) ELSE s

RECURSIVE TrimRight(_, _)
TrimRight(s, c) ==
  IF s # <<>> /\ s[Len(s)] = c THEN TrimRight(SubSeq(s, 1, Len(s) - 1), c) ELSE s

Trim(s, c) == TrimRight(TrimLeft(s, c), c)

\* Position of the first c in s at or after position from, 0 if none.
RECURSIVE IndexFrom(_, _, _)
IndexFrom(s, c, from) ==
  IF from > Len(s) THEN 0
  ELSE IF s[from] = c THEN from
  ELSE IndexFrom(s, c, from + 1)

\* Position of the last c in s, 0 if none.
RECURSIVE LastIndex(_, _)
LastIndex(s, c) ==
  IF s = <<>> THEN 0
  ELSE IF s[Len(s)] = c THEN Len(s)
  ELSE LastIndex(SubSeq(s, 1, Len(s) - 1), c)

\* strings.Split(s, "/"): the segments between separators, empty ones kept.
RECURSIVE Split(_)
Split(s) ==
  LET i == IndexFrom(s, "/", 1)
  IN IF i = 0 THEN <<s>>
     ELSE <<SubSeq(s, 1, i - 1)>> \o Split(SubSeq(s, i + 1, Len(s)))

\* strings.Join(segs, "/")
RECURSIVE JoinSegs(_)
JoinSegs(segs) ==
  IF segs = <<>> THEN <<>>
  ELSE IF Len(segs) = 1 THEN segs[1]
  ELSE segs[1] \o <<"/">> \o JoinSegs(Tail(segs))

\* Sequence of the elements of a finite set of strings, ascending by StrLess.
RECURSIVE SortStrs(_)
SortStrs(S) ==
  IF S = {} THEN <<>>
  ELSE LET m == CHOOSE x \in S : \A y \in S \ {x} : StrLess(x, y)
       IN <<m>> \o SortStrs(S \ {m})

(***************************************************************************)
(* Go's package path                                                       *)
(***************************************************************************)

DotDot == <<".", ".">>

\* The segment stack of path.Clean: "" and "." are dropped, ".." removes the
\* segment before it, is kept in front of a relative path and is dropped at
\* the root of a rooted path.
RECURSIVE CleanSegs(_, _, _)
CleanSegs(segs, out, rooted) ==
  IF segs = <<>> THEN out
  ELSE LET s == Head(segs)
           rest == Tail(segs)
       IN IF s = <<>> \/ s = <<".">> THEN CleanSegs(rest, out, rooted)
          ELSE IF s = DotDot
          THEN IF out # <<>> /\ out[Len(out)] # DotDot
               THEN CleanSegs(rest, SubSeq(out, 1, Len(out) - 1), rooted)
               ELSE IF rooted THEN CleanSegs(rest, out, rooted)
               ELSE CleanSegs(rest, Append(out, s), rooted)
          ELSE CleanSegs(rest, Append(out, s), rooted)

\* path.Clean
pathClean(name) ==
  IF name = <<>> THEN <<".">>
  ELSE LET rooted == Head(name) = "/"
           body == JoinSegs(CleanSegs(Split(name), <<>>, rooted))
       IN IF rooted THEN <<"/">> \o body
          ELSE IF body = <<>> THEN <<".">>
          ELSE body

\* path.Join: empty elements are ignored, the rest joined and cleaned.
pathJoin(elems) ==
  LET nonEmpty == SelectSeq(elems, LAMBDA e : e # <<>>)
  IN IF nonEmpty = <<>> THEN <<>> ELSE pathClean(JoinSegs(nonEmpty))

\* path.Base
pathBase(name) ==
  IF name = <<>> THEN <<".">>
  ELSE LET t == TrimRight(name, "/")
       IN IF t = <<>> THEN <<"/">>
          ELSE SubSeq(t, LastIndex(t, "/") + 1, Len(t))

(***************************************************************************)
(* Constants of the program and bounds of the model                        *)
(***************************************************************************)

pathSeparator == <<"/">>
currentDirName == <<".">>
directoryFile == <<".", "k", "e", "e", "p">>

\* Number of items the store returns per listing page (the store's default
\* is far larger; the model pages early so that listings span pages).
PageSize == 1
\* Largest number of objects the test fixture puts into the bucket.
MaxObjs == 2

\* Bytes the caller writes, the most it writes through one handle, and the
\* part size of the transfer managers (minPartSize in the program; the model
\* scales it down so that a body spans parts).
Bytes == {1, 2}
MaxLen == 3
PartSize == 2
MaxHandles == 2
MaxWrites == 2

\* Error values: the sentinel an error wraps (errors.Is) and its message.  A
\* failed store request is passed through unchanged; its message names the
\* request that failed.
Err(kind, msg) == [kind |-> kind, msg |-> msg]
ErrNil == Err("nil", "")
ErrNotExist == Err("fs.ErrNotExist", "")
TransportErr(op) == Err("transport", op)
\* The error of a request issued with an already cancelled context.
CanceledErr(op) == Err("context.Canceled", op)
EOF == Err("io.EOF", "")
ErrClosedPipe == Err("io.ErrClosedPipe", "")

(***************************************************************************)
(* The object store (the collaborator behind s3ApiClient)                  *)
(*                                                                         *)
(* A store is a function from the keys that hold an object to its body.    *)
(***************************************************************************)

Keys(st) == DOMAIN st

PutObj(st, key, body) ==
  [k \in Keys(st) \cup {key} |-> IF k = key THEN body ELSE st[k]]

DelObj(st, key) == [k \in Keys(st) \ {key} |-> st[k]]

\* The listing item a key contributes under a prefix and the delimiter "/":
\* the key itself, or the common prefix up to the first delimiter after the
\* listing prefix.
ListItem(key, prefix) ==
  LET i == IndexFrom(key, "/", Len(prefix) + 1)
  IN IF i = 0 THEN [name |-> key, isPrefix |-> FALSE]
     ELSE [name |-> SubSeq(key, 1, i), isPrefix |-> TRUE]

ListItems(st, prefix) ==
  {ListItem(k, prefix) : k \in {x \in Keys(st) : HasPrefix(x, prefix)}}

\* ListObjectsV2 with delimiter "/": the items after the continuation token
\* in byte order of their names, at most maxKeys of them (a common prefix
\* counts as one), split into CommonPrefixes and Contents.
ListObjectsV2(st, prefix, maxKeys, token) ==
  Let(ListItems(st, prefix), LAMBDA items :
  Let(SortStrs({n \in {it.name : it \in items} : token = <<>> \/ StrLess(token, n)}),
      LAMBDA sorted :
  Let(SubSeq(sorted, 1, Min2(maxKeys, Len(sorted))), LAMBDA page :
    [CommonPrefixes |-> SelectSeq(page, LAMBDA n : [name |-> n, isPrefix |-> TRUE] \in items),
     Contents |-> SelectSeq(page, LAMBDA n : [name |-> n, isPrefix |-> TRUE] \notin items),
     IsTruncated |-> Len(sorted) > maxKeys,
     NextContinuationToken |-> IF Len(sorted) > maxKeys THEN page[Len(page)] ELSE <<>>])))

(***************************************************************************)
(* Path normalizer                                                         *)
(***************************************************************************)

\* cleanPath without the case of "." and "/".
cleanPath_noRootCase(name) == TrimLeft(pathClean(name), "/")

cleanPath(name) ==
  Let(pathClean(name), LAMBDA c :
    IF c = currentDirName \/ c = pathSeparator THEN <<>>
    ELSE TrimLeft(c, "/"))

\* Fs.withPrefix(name...)
withPrefix(prefix, names) == cleanPath(pathJoin(<<prefix>> \o names))

\* WithPrefix option: the prefix a filesystem is configured with.
WithPrefix(prefix) ==
  Let(cleanPath(prefix), LAMBDA s : IF s # <<>> THEN Trim(s, "/") ELSE <<>>)

\* WithDirectoryFile option
WithDirectoryFile(s) == IF s # <<>> THEN s ELSE directoryFile

baseName(name) == [base |-> pathBase(name), isDir |-> HasSuffix(name, pathSeparator)]

(***************************************************************************)
(* FileInfo                                                                *)
(***************************************************************************)

directoryFileInfo(name) == [name |-> name, size |-> 0, isDir |-> TRUE]

regularFileInfo(name, size) == [name |-> name, size |-> size, isDir |-> FALSE]

\* The zero FileInfo{} that accompanies an error.
NoInfo == [name |-> <<>>, size |-> 0, isDir |-> FALSE]

(***************************************************************************)
(* Metadata resolver                                                       *)
(***************************************************************************)

ListReq(prefix, maxKeys) == [op |-> "ListObjectsV2", prefix |-> prefix, maxKeys |-> maxKeys]

\* StatWithContext with the listed keys compared against the caller's path
\* instead of the prefixed key.
StatWithContext_unprefixedMatch(st, cfg, name, ok) ==
  IF cleanPath(name) = <<>>
  THEN [err |-> ErrNil, info |-> directoryFileInfo(currentDirName), reqs |-> <<>>]
  ELSE
  Let(withPrefix(cfg.prefix, <<name>>), LAMBDA prefixedName :
  Let(<<ListReq(prefixedName, 1)>>, LAMBDA reqs :
  Let(ListObjectsV2(st, prefixedName, 1, <<>>), LAMBDA res :
    IF ~ok
    THEN [err |-> TransportErr("ListObjectsV2"), info |-> NoInfo, reqs |-> reqs]
    ELSE IF \E i \in 1..Len(res.CommonPrefixes) :
               res.CommonPrefixes[i] = prefixedName \o pathSeparator
    THEN [err |-> ErrNil, info |-> directoryFileInfo(cleanPath(name)), reqs |-> reqs]
    ELSE IF \E i \in 1..Len(res.Contents) : res.Contents[i] = cleanPath(name)
    THEN [err |-> ErrNil,
          info |-> regularFileInfo(cleanPath(name), Len(st[prefixedName])),
          reqs |-> reqs]
    ELSE [err |-> ErrNotExist, info |-> NoInfo, reqs |-> reqs])))

\* StatWithContext without the case of the root.
StatWithContext_noRootCase(st, cfg, name, ok) ==
  Let(withPrefix(cfg.prefix, <<name>>), LAMBDA prefixedName :
  Let(<<ListReq(prefixedName, 1)>>, LAMBDA reqs :
  Let(ListObjectsV2(st, prefixedName, 1, <<>>), LAMBDA res :
    IF ~ok
    THEN [err |-> TransportErr("ListObjectsV2"), info |-> NoInfo, reqs |-> reqs]
    ELSE IF \E i \in 1..Len(res.CommonPrefixes) :
               res.CommonPrefixes[i] = prefixedName \o pathSeparator
    THEN [err |-> ErrNil, info |-> directoryFileInfo(cleanPath(name)), reqs |-> reqs]
    ELSE IF \E i \in 1..Len(res.Contents) : res.Contents[i] = prefixedName
    THEN [err |-> ErrNil,
          info |-> regularFileInfo(cleanPath(name), Len(st[prefixedName])),
          reqs |-> reqs]
    ELSE [err |-> ErrNotExist, info |-> NoInfo, reqs |-> reqs])))

\* Fs.StatWithContext.  ok: whether the listing request succeeds.
\* Result: the error, the FileInfo and the store requests issued.
StatWithContext(st, cfg, name, ok) ==
  IF cleanPath(name) = <<>>
  THEN [err |-> ErrNil, info |-> directoryFileInfo(currentDirName), reqs |-> <<>>]
  ELSE
  Let(withPrefix(cfg.prefix, <<name>>), LAMBDA prefixedName :
  Let(<<ListReq(prefixedName, 1)>>, LAMBDA reqs :
  Let(ListObjectsV2(st, prefixedName, 1, <<>>), LAMBDA res :
    IF ~ok
    THEN [err |-> TransportErr("ListObjectsV2"), info |-> NoInfo, reqs |-> reqs]
    ELSE IF \E i \in 1..Len(res.CommonPrefixes) :
               res.CommonPrefixes[i] = prefixedName \o pathSeparator
    THEN [err |-> ErrNil, info |-> directoryFileInfo(cleanPath(name)), reqs |-> reqs]
    ELSE IF \E i \in 1..Len(res.Contents) : res.Contents[i] = prefixedName
    THEN [err |-> ErrNil,
          info |-> regularFileInfo(cleanPath(name), Len(st[prefixedName])),
          reqs |-> reqs]
    ELSE [err |-> ErrNotExist, info |-> NoInfo, reqs |-> reqs])))

(***************************************************************************)
(* Directory lister                                                        *)
(***************************************************************************)

\* The loop over page.CommonPrefixes: acc is [seen, result].
RECURSIVE AddPrefixes(_, _)
AddPrefixes(ps, acc) ==
  IF ps = <<>> THEN acc
  ELSE Let(baseName(Head(ps)).base, LAMBDA dir :
         IF dir \in acc.seen THEN AddPrefixes(Tail(ps), acc)
         ELSE AddPrefixes(Tail(ps),
                          [seen |-> acc.seen \cup {dir},
                           result |-> Append(acc.result, directoryFileInfo(dir))]))

\* The loop over page.Contents.
RECURSIVE AddContents(_, _, _, _)
AddContents(objs, st, cfg, acc) ==
  IF objs = <<>> THEN acc
  ELSE Let(baseName(Head(objs)), LAMBDA bn :
         IF bn.base = <<>> \/ bn.base = pathSeparator \/ bn.base = cfg.directoryFile
         THEN AddContents(Tail(objs), st, cfg, acc)
         ELSE IF bn.isDir /\ bn.base \in acc.seen
         THEN AddContents(Tail(objs), st, cfg, acc)
         ELSE AddContents(Tail(objs), st, cfg,
                          [seen |-> IF bn.isDir THEN acc.seen \cup {bn.base} ELSE acc.seen,
                           result |-> Append(acc.result,
                                             regularFileInfo(bn.base, Len(st[Head(objs)])))]))

\* The paginator loop of ReadDirWithContext from page n on.  failPage: the
\* page whose request the store fails (0: none).  With a timeout configured
\* the context of page n is derived from the context of page n - 1, which
\* was cancelled when that page returned.
RECURSIVE ReadDirPages(_, _, _, _, _, _, _, _)
ReadDirPages(st, cfg, listPrefix, token, n, acc, reqs, failPage) ==
  Let(Append(reqs, ListReq(listPrefix, PageSize)), LAMBDA reqs1 :
  Let(ListObjectsV2(st, listPrefix, PageSize, token), LAMBDA page :
  Let(AddContents(page.Contents, st, cfg, AddPrefixes(page.CommonPrefixes, acc)),
      LAMBDA acc1 :
    IF cfg.timeout /\ n > 1
    THEN [err |-> CanceledErr("ListObjectsV2"), result |-> <<>>, reqs |-> reqs1]
    ELSE IF n = failPage
    THEN [err |-> TransportErr("ListObjectsV2"), result |-> <<>>, reqs |-> reqs1]
    ELSE IF page.IsTruncated
    THEN ReadDirPages(st, cfg, listPrefix, page.NextContinuationToken, n + 1, acc1,
                      reqs1, failPage)
    ELSE [err |-> ErrNil, result |-> acc1.result, reqs |-> reqs1])))

\* The orders sort.Slice may leave the entries in: every permutation that is
\* ascending by name (entries of equal name in either order).
RECURSIVE SortedFrom(_, _)
SortedFrom(result, idxs) ==
  IF idxs = {} THEN {<<>>}
  ELSE UNION {{<<result[i]>> \o r : r \in SortedFrom(result, idxs \ {i})} :
                i \in {j \in idxs : \A k \in idxs : ~StrLess(result[k].name, result[j].name)}}

sortSlice(result) == SortedFrom(result, DOMAIN result)

\* ReadDirWithContext passing the fs.ErrNotExist of Stat on to the caller.
ReadDirWithContext_notExistFails(st, cfg, name, f) ==
  Let(cleanPath(name), LAMBDA dirName :
  Let(StatWithContext(st, cfg, dirName, f # 1), LAMBDA stat :
    IF stat.err # ErrNil
    THEN {[err |-> stat.err, entries |-> <<>>, reqs |-> stat.reqs]}
    ELSE IF ~stat.info.isDir
    THEN {[err |-> Err("fs.ErrInvalid", "cannot list a file"),
           entries |-> <<>>, reqs |-> stat.reqs]}
    ELSE
    Let(ReadDirPages(st, cfg,
                     IF dirName = <<>> THEN <<>>
                     ELSE withPrefix(cfg.prefix, <<dirName>>) \o pathSeparator,
                     <<>>, 1,
                     [seen |-> {currentDirName, pathSeparator},
                      result |-> <<directoryFileInfo(currentDirName)>>],
                     stat.reqs, IF f > 1 THEN f - 1 ELSE 0),
        LAMBDA pages :
      IF pages.err # ErrNil
      THEN {[err |-> pages.err, entries |-> <<>>, reqs |-> pages.reqs]}
      ELSE {[err |-> ErrNil, entries |-> r, reqs |-> pages.reqs] :
              r \in sortSlice(pages.result)})))

\* Fs.ReadDirWithContext: the set of results it may return.  f: the request
\* that the store fails (0: none, 1: the listing of Stat, 1 + n: page n).
\* entries is <<>> where the code returns nil or an empty slice.
ReadDirWithContext(st, cfg, name, f) ==
  Let(cleanPath(name), LAMBDA dirName :
  Let(StatWithContext(st, cfg, dirName, f # 1), LAMBDA stat :
    IF stat.err # ErrNil
    THEN {[err |-> IF stat.err = ErrNotExist THEN ErrNil ELSE stat.err,
           entries |-> <<>>, reqs |-> stat.reqs]}
    ELSE IF ~stat.info.isDir
    THEN {[err |-> Err("fs.ErrInvalid", "cannot list a file"),
           entries |-> <<>>, reqs |-> stat.reqs]}
    ELSE
    Let(ReadDirPages(st, cfg,
                     IF dirName = <<>> THEN <<>>
                     ELSE withPrefix(cfg.prefix, <<dirName>>) \o pathSeparator,
                     <<>>, 1,
                     [seen |-> {currentDirName, pathSeparator},
                      result |-> <<directoryFileInfo(currentDirName)>>],
                     stat.reqs, IF f > 1 THEN f - 1 ELSE 0),
        LAMBDA pages :
      IF pages.err # ErrNil
      THEN {[err |-> pages.err, entries |-> <<>>, reqs |-> pages.reqs]}
      ELSE {[err |-> ErrNil, entries |-> r, reqs |-> pages.reqs] :
              r \in sortSlice(pages.result)})))

(***************************************************************************)
(* Filesystem facade                                                       *)
(***************************************************************************)

DeleteReq(key) == [op |-> "DeleteObject", key |-> key]
PutReq(key) == [op |-> "PutObject", key |-> key]
CopyReq(src, dst) == [op |-> "CopyObject", src |-> src, key |-> dst]

\* RemoveWithContext deleting the caller's path instead of the prefixed key.
RemoveWithContext_unprefixedKey(st, cfg, fileName, f) ==
  Let(StatWithContext(st, cfg, fileName, f # 1), LAMBDA stat :
  Let(cleanPath(fileName), LAMBDA key :
    IF stat.err # ErrNil
    THEN [err |-> IF stat.err = ErrNotExist THEN ErrNil ELSE stat.err,
          store |-> st, reqs |-> stat.reqs]
    ELSE IF stat.info.isDir
    THEN [err |-> Err("fs.ErrInvalid", "named file is a directory"),
          store |-> st, reqs |-> stat.reqs]
    ELSE IF f = 2
    THEN [err |-> TransportErr("DeleteObject"), store |-> st,
          reqs |-> Append(stat.reqs, DeleteReq(key))]
    ELSE [err |-> ErrNil, store |-> DelObj(st, key),
          reqs |-> Append(stat.reqs, DeleteReq(key))]))

\* RemoveWithContext passing the fs.ErrNotExist of Stat on to the caller.
RemoveWithContext_notExistFails(st, cfg, fileName, f) ==
  Let(StatWithContext(st, cfg, fileName, f # 1), LAMBDA stat :
  Let(withPrefix(cfg.prefix, <<fileName>>), LAMBDA key :
    IF stat.err # ErrNil
    THEN [err |-> stat.err, store |-> st, reqs |-> stat.reqs]
    ELSE IF stat.info.isDir
    THEN [err |-> Err("fs.ErrInvalid", "named file is a directory"),
          store |-> st, reqs |-> stat.reqs]
    ELSE IF f = 2
    THEN [err |-> TransportErr("DeleteObject"), store |-> st,
          reqs |-> Append(stat.reqs, DeleteReq(key))]
    ELSE [err |-> ErrNil, store |-> DelObj(st, key),
          reqs |-> Append(stat.reqs, DeleteReq(key))]))

\* RemoveWithContext without the check that the path is not a directory.
RemoveWithContext_noDirCheck(st, cfg, fileName, f) ==
  Let(StatWithContext(st, cfg, fileName, f # 1), LAMBDA stat :
  Let(withPrefix(cfg.prefix, <<fileName>>), LAMBDA key :
    IF stat.err # ErrNil
    THEN [err |-> IF stat.err = ErrNotExist THEN ErrNil ELSE stat.err,
          store |-> st, reqs |-> stat.reqs]
    ELSE IF f = 2
    THEN [err |-> TransportErr("DeleteObject"), store |-> st,
          reqs |-> Append(stat.reqs, DeleteReq(key))]
    ELSE [err |-> ErrNil, store |-> DelObj(st, key),
          reqs |-> Append(stat.reqs, DeleteReq(key))]))

\* Fs.RemoveWithContext.  f: the request that the store fails (0: none,
\* 1: the listing of Stat, 2: DeleteObject).  Deleting an absent key succeeds.
RemoveWithContext(st, cfg, fileName, f) ==
  Let(StatWithContext(st, cfg, fileName, f # 1), LAMBDA stat :
  Let(withPrefix(cfg.prefix, <<fileName>>), LAMBDA key :
    IF stat.err # ErrNil
    THEN [err |-> IF stat.err = ErrNotExist THEN ErrNil ELSE stat.err,
          store |-> st, reqs |-> stat.reqs]
    ELSE IF stat.info.isDir
    THEN [err |-> Err("fs.ErrInvalid", "named file is a directory"),
          store |-> st, reqs |-> stat.reqs]
    ELSE IF f = 2
    THEN [err |-> TransportErr("DeleteObject"), store |-> st,
          reqs |-> Append(stat.reqs, DeleteReq(key))]
    ELSE [err |-> ErrNil, store |-> DelObj(st, key),
          reqs |-> Append(stat.reqs, DeleteReq(key))]))

\* CreateDirWithContext without the check that the path is not a file.
CreateDirWithContext_noFileCheck(st, cfg, name, f) ==
  Let(StatWithContext(st, cfg, name, f # 1), LAMBDA stat :
  Let(withPrefix(cfg.prefix, <<name, cfg.directoryFile>>), LAMBDA key :
    IF stat.err # ErrNil /\ stat.err # ErrNotExist
    THEN [err |-> stat.err, store |-> st, reqs |-> stat.reqs, info |-> NoInfo]
    ELSE IF stat.info.isDir
    THEN [err |-> Err("fs.ErrExist", "a directory with the same name already exists"),
          store |-> st, reqs |-> stat.reqs, info |-> NoInfo]
    ELSE IF f = 2
    THEN [err |-> TransportErr("PutObject"), store |-> st,
          reqs |-> Append(stat.reqs, PutReq(key)), info |-> NoInfo]
    ELSE [err |-> ErrNil, store |-> PutObj(st, key, <<>>),
          reqs |-> Append(stat.reqs, PutReq(key)),
          info |-> directoryFileInfo(cleanPath(name))]))

\* Fs.CreateDirWithContext.  f: 0 none, 1 the listing of Stat, 2 PutObject.
CreateDirWithContext(st, cfg, name, f) ==
  Let(StatWithContext(st, cfg, name, f # 1), LAMBDA stat :
  Let(withPrefix(cfg.prefix, <<name, cfg.directoryFile>>), LAMBDA key :
    IF stat.err # ErrNil /\ stat.err # ErrNotExist
    THEN [err |-> stat.err, store |-> st, reqs |-> stat.reqs, info |-> NoInfo]
    ELSE IF stat.err = ErrNil /\ ~stat.info.isDir
    THEN [err |-> Err("fs.ErrExist", "a file with the same name already exists"),
          store |-> st, reqs |-> stat.reqs, info |-> NoInfo]
    ELSE IF stat.info.isDir
    THEN [err |-> Err("fs.ErrExist", "a directory with the same name already exists"),
          store |-> st, reqs |-> stat.reqs, info |-> NoInfo]
    ELSE IF f = 2
    THEN [err |-> TransportErr("PutObject"), store |-> st,
          reqs |-> Append(stat.reqs, PutReq(key)), info |-> NoInfo]
    ELSE [err |-> ErrNil, store |-> PutObj(st, key, <<>>),
          reqs |-> Append(stat.reqs, PutReq(key)),
          info |-> directoryFileInfo(cleanPath(name))]))

\* RemoveDirWithContext without the check that the listing is only ".".
RemoveDirWithContext_noEmptyCheck(st, cfg, name, f) ==
  {IF rd.err # ErrNil
   THEN [err |-> rd.err, store |-> st, reqs |-> rd.reqs]
   ELSE Let(RemoveWithContext(st, cfg, pathJoin(<<name, cfg.directoryFile>>),
                              IF f > 3 THEN f - 3 ELSE 0),
            LAMBDA rm : [err |-> rm.err, store |-> rm.store, reqs |-> rd.reqs \o rm.reqs])
     : rd \in ReadDirWithContext(st, cfg, name, IF f <= 3 THEN f ELSE 0)}

\* Fs.RemoveDirWithContext: the set of results.  f: the request that the
\* store fails (0: none, 1..3: as for ReadDirWithContext, 4: the listing of
\* Remove's Stat, 5: DeleteObject).
RemoveDirWithContext(st, cfg, name, f) ==
  {IF rd.err # ErrNil
   THEN [err |-> rd.err, store |-> st, reqs |-> rd.reqs]
   ELSE IF Len(rd.entries) = 1 /\ rd.entries[1].name = currentDirName
   THEN Let(RemoveWithContext(st, cfg, pathJoin(<<name, cfg.directoryFile>>),
                              IF f > 3 THEN f - 3 ELSE 0),
            LAMBDA rm : [err |-> rm.err, store |-> rm.store, reqs |-> rd.reqs \o rm.reqs])
   ELSE [err |-> Err("fs.ErrInvalid", "directory not empty"),
         store |-> st, reqs |-> rd.reqs]
     : rd \in ReadDirWithContext(st, cfg, name, IF f <= 3 THEN f ELSE 0)}

\* CopyObject of the store: fails when the store fails the request (~ok) and
\* when the source is absent; otherwise the destination gets the body of the
\* source.  Whether a store accepts a copy of an object onto itself depends
\* on the store: a store that accepts it leaves the object as it is, a store
\* that rejects it is the case ~ok.
CopyObject(st, src, dst, ok) ==
  IF ~ok \/ src \notin Keys(st)
  THEN [err |-> TransportErr("CopyObject"), store |-> st]
  ELSE [err |-> ErrNil, store |-> PutObj(st, dst, st[src])]

\* RenameCopy without the check that newpath is not a directory.
RenameCopy_noNewDirCheck(st, cfg, oldpath, newpath, f) ==
  Let(StatWithContext(st, cfg, oldpath, f # 1), LAMBDA oldStat :
    IF oldStat.err # ErrNil
    THEN [err |-> oldStat.err, store |-> st, reqs |-> oldStat.reqs, copied |-> FALSE]
    ELSE IF oldStat.info.isDir
    THEN [err |-> Err("fs.ErrInvalid", "oldpath is a directory"),
          store |-> st, reqs |-> oldStat.reqs, copied |-> FALSE]
    ELSE
    Let(StatWithContext(st, cfg, newpath, f # 2), LAMBDA newStat :
    Let(oldStat.reqs \o newStat.reqs, LAMBDA stats :
      IF newStat.err # ErrNil /\ newStat.err # ErrNotExist
      THEN [err |-> newStat.err, store |-> st, reqs |-> stats, copied |-> FALSE]
      ELSE
      Let(withPrefix(cfg.prefix, <<oldpath>>), LAMBDA src :
      Let(withPrefix(cfg.prefix, <<newpath>>), LAMBDA dst :
      Let(CopyObject(st, src, dst, f # 3), LAMBDA copy :
        [err |-> copy.err, store |-> copy.store,
         reqs |-> Append(stats, CopyReq(src, dst)), copied |-> copy.err = ErrNil]))))))

\* Fs.RenameWithContext up to and including CopyObject.  f: 0 none, 1 the
\* listing of Stat(oldpath), 2 the listing of Stat(newpath), 3 CopyObject.
\* copied: whether the code goes on to RemoveWithContext(oldpath).
RenameCopy(st, cfg, oldpath, newpath, f) ==
  Let(StatWithContext(st, cfg, oldpath, f # 1), LAMBDA oldStat :
    IF oldStat.err # ErrNil
    THEN [err |-> oldStat.err, store |-> st, reqs |-> oldStat.reqs, copied |-> FALSE]
    ELSE IF oldStat.info.isDir
    THEN [err |-> Err("fs.ErrInvalid", "oldpath is a directory"),
          store |-> st, reqs |-> oldStat.reqs, copied |-> FALSE]
    ELSE
    Let(StatWithContext(st, cfg, newpath, f # 2), LAMBDA newStat :
    Let(oldStat.reqs \o newStat.reqs, LAMBDA stats :
      IF newStat.err # ErrNil /\ newStat.err # ErrNotExist
      THEN [err |-> newStat.err, store |-> st, reqs |-> stats, copied |-> FALSE]
      ELSE IF newStat.info.isDir
      THEN [err |-> Err("fs.ErrInvalid", "newpath is a directory"),
            store |-> st, reqs |-> stats, copied |-> FALSE]
      ELSE
      Let(withPrefix(cfg.prefix, <<oldpath>>), LAMBDA src :
      Let(withPrefix(cfg.prefix, <<newpath>>), LAMBDA dst :
      Let(CopyObject(st, src, dst, f # 3), LAMBDA copy :
        [err |-> copy.err, store |-> copy.store,
         reqs |-> Append(stats, CopyReq(src, dst)), copied |-> copy.err = ErrNil]))))))

(***************************************************************************)
(* State                                                                   *)
(***************************************************************************)

VARIABLES
  store,  \* the bucket: key -> body
  cfg,    \* the Fs value: prefix, directoryFile, whether a timeout is set
  pc,     \* position of the caller
  last,   \* the call in progress or just returned, and what it returned
  file,   \* the File handle the caller holds
  pipe,   \* the pipe between the handle and its background task
  task,   \* the background transfer of the handle
  sent,   \* what the caller has written through the handle it created last
  got,    \* the bytes the Read calls on the current handle have returned
  handles, \* the number of pipes opened (by Create, Open and Seek)
  writes   \* the number of Write and WriteAt calls made

fsVars == <<store, cfg>>
hVars == <<file, pipe, task, sent, got, handles, writes>>
vars == <<store, cfg, pc, last, file, pipe, task, sent, got, handles, writes>>

\* Filesystems the model constructs with New.
Configs ==
  {[prefix |-> WithPrefix(<<>>), directoryFile |-> WithDirectoryFile(<<>>), timeout |-> FALSE],
   [prefix |-> WithPrefix(<<"/", "a", "/">>), directoryFile |-> WithDirectoryFile(<<".", "d">>),
    timeout |-> FALSE],
   [prefix |-> WithPrefix(<<>>), directoryFile |-> WithDirectoryFile(<<>>), timeout |-> TRUE]}

\* Keys the test fixture creates objects at (createObject).
FixtureKeys ==
  {<<"a">>, <<"a", "-">>, <<"a", "/", "-">>, <<"a", "/", "b">>,
   <<"a", "/", "b", "-">>, <<"a", "/", "b", "/", "c">>, <<"b">>}

\* Paths the caller passes to the facade.
Paths ==
  {<<>>, <<"a">>, <<"/", "a", "/">>, <<"a", "-">>, <<"a", "/", "b">>, <<"b">>, <<"-">>}

\* The paths that name the root.
RootPaths == {<<>>, currentDirName, pathSeparator}

\* Paths the caller passes to Rename.
RenamePaths == {<<>>, <<"a">>, <<"/", "a", "/">>, <<"a", "/", "b">>, <<"b">>}

EmptyStore == <<>>

NoCall ==
  [op |-> "none", name |-> <<>>, name2 |-> <<>>, err |-> ErrNil, info |-> NoInfo,
   entries |-> <<>>, reqs |-> <<>>, pre |-> EmptyStore, copied |-> FALSE, n |-> 0,
   bytes |-> <<>>, off |-> 0, whence |-> ""]

\* A File value: whether reader and writer are set, info.name,
\* info.size, offset, and whether Close has returned on it.
NoFile ==
  [reader |-> FALSE, writer |-> FALSE, name |-> <<>>, size |-> 0, offset |-> 0,
   closed |-> FALSE]

\* A pipe: the cells of its backing file (0 where nothing was written), the
\* length of the written run that starts at offset 0 (endln, what the reader
\* end can read), the offsets written past that run (ahead), whether and
\* with what error the writer end (eow, werr) and the reader end (eor, rerr)
\* are closed, and the offsets of the next sequential Read and Write.
NoPipe ==
  [data |-> <<>>, endln |-> 0, ahead |-> {}, eow |-> FALSE, werr |-> ErrNil,
   eor |-> FALSE, rerr |-> ErrNil, readeroff |-> 0, writeroff |-> 0]

\* A background transfer: upload or download, its state, the key it
\* addresses, the offset it has reached, for an upload the bytes and the
\* number of parts it has sent, and for a download the offset in the object
\* that its range starts at (base).
NoTask ==
  [kind |-> "none", state |-> "none", key |-> <<>>, off |-> 0, body |-> <<>>, parts |-> 0,
   base |-> 0, cancelled |-> FALSE, stale |-> 0]

\* readerCancelFn(): the context of the download of the handle is cancelled.
CancelTask(t) == IF t.kind = "download" THEN [t EXCEPT !.cancelled = TRUE] ELSE t

\* The downloads of the handle whose context has not been cancelled: the
\* current one, and those that a Seek replaced (stale).
Uncancelled(t) == t.stale + (IF t.kind = "download" /\ ~t.cancelled THEN 1 ELSE 0)

\* What the caller did with the handle it created last: the key, the bytes
\* its Write calls accepted, whether it used WriteAt, whether the key was
\* absent at Create, the store at Create, whether Close has been called and
\* whether it has returned nil, the bytes it wrote laid out by their offsets
\* (src), the offsets it wrote (cover), whether a write covered an offset
\* written before (overlap), and whether a write started past an offset not
\* written yet (outOfOrder).
NoSent ==
  [key |-> <<>>, data |-> <<>>, at |-> FALSE, fresh |-> FALSE, pre |-> EmptyStore,
   closeCalled |-> FALSE, closedNil |-> FALSE,
   src |-> <<>>, cover |-> {}, overlap |-> FALSE, outOfOrder |-> FALSE]

HandleInit ==
  /\ file = NoFile
  /\ pipe = NoPipe
  /\ task = NoTask
  /\ sent = NoSent
  /\ got = <<>>
  /\ handles = 0
  /\ writes = 0

Call(op, name, name2, pre) ==
  [NoCall EXCEPT !.op = op, !.name = name, !.name2 = name2, !.pre = pre]

FsInit ==
  /\ store = EmptyStore
  /\ cfg \in Configs
  /\ pc = "idle"
  /\ last = NoCall
  /\ HandleInit

(***************************************************************************)
(* Actions of the facade                                                   *)
(***************************************************************************)

\* The test fixture puts an object into the bucket (createObject); its body
\* is the text of its key, so that objects differ in body and size.
FixturePut(key) ==
  /\ pc = "idle"
  /\ Cardinality(Keys(store)) < MaxObjs
  /\ store' = PutObj(store, key, key)
  /\ UNCHANGED <<cfg, pc, last>>
  /\ UNCHANGED hVars

Stat(name, ok) ==
  /\ pc = "idle"
  /\ \E r \in {StatWithContext(store, cfg, name, ok)} :
        last' = [Call("Stat", name, <<>>, store) EXCEPT
                   !.err = r.err, !.info = r.info, !.reqs = r.reqs]
  /\ pc' = "returned"
  /\ UNCHANGED fsVars
  /\ UNCHANGED hVars

ReadDir(name, f) ==
  /\ pc = "idle"
  /\ \E r \in ReadDirWithContext(store, cfg, name, f) :
        last' = [Call("ReadDir", name, <<>>, store) EXCEPT
                   !.err = r.err, !.entries = r.entries, !.reqs = r.reqs]
  /\ pc' = "returned"
  /\ UNCHANGED fsVars
  /\ UNCHANGED hVars

CreateDir(name, f) ==
  /\ pc = "idle"
  /\ Cardinality(Keys(store)) < MaxObjs
  /\ \E r \in {CreateDirWithContext(store, cfg, name, f)} :
        /\ last' = [Call("CreateDir", name, <<>>, store) EXCEPT
                      !.err = r.err, !.info = r.info, !.reqs = r.reqs]
        /\ store' = r.store
  /\ pc' = "returned"
  /\ UNCHANGED cfg
  /\ UNCHANGED hVars

Remove(name, f) ==
  /\ pc = "idle"
  /\ \E r \in {RemoveWithContext(store, cfg, name, f)} :
        /\ last' = [Call("Remove", name, <<>>, store) EXCEPT !.err = r.err, !.reqs = r.reqs]
        /\ store' = r.store
  /\ pc' = "returned"
  /\ UNCHANGED cfg
  /\ UNCHANGED hVars

RemoveDir(name, f) ==
  /\ pc = "idle"
  /\ \E r \in RemoveDirWithContext(store, cfg, name, f) :
        /\ last' = [Call("RemoveDir", name, <<>>, store) EXCEPT
                      !.err = r.err, !.reqs = r.reqs]
        /\ store' = r.store
  /\ pc' = "returned"
  /\ UNCHANGED cfg
  /\ UNCHANGED hVars

\* Rename, first part: the two Stat calls and CopyObject.
RenameBegin(oldpath, newpath, f) ==
  /\ pc = "idle"
  /\ \E r \in {RenameCopy(store, cfg, oldpath, newpath, f)} :
        /\ last' = [Call("Rename", oldpath, newpath, store) EXCEPT
                      !.err = r.err, !.reqs = r.reqs, !.copied = r.copied]
        /\ store' = r.store
        /\ pc' = IF r.copied THEN "RenameRemove" ELSE "returned"
  /\ UNCHANGED cfg
  /\ UNCHANGED hVars

\* Rename, second part: return f.RemoveWithContext(ctx, oldpath).
RenameRemove(f) ==
  /\ pc = "RenameRemove"
  /\ \E r \in {RemoveWithContext(store, cfg, last.name, f)} :
        /\ last' = [last EXCEPT !.err = r.err, !.reqs = @ \o r.reqs]
        /\ store' = r.store
  /\ pc' = "returned"
  /\ UNCHANGED cfg
  /\ UNCHANGED hVars

\* The caller takes the result and goes on to its next call.
Return ==
  /\ pc = "returned"
  /\ pc' = "idle"
  /\ last' = NoCall
  /\ UNCHANGED fsVars
  /\ UNCHANGED hVars

FsNext ==
  \/ \E key \in FixtureKeys : FixturePut(key)
  \/ \E name \in Paths \cup RootPaths, ok \in BOOLEAN : Stat(name, ok)
  \/ \E name \in Paths, f \in 0..3 : ReadDir(name, f)
  \/ \E name \in Paths, f \in 0..2 : CreateDir(name, f)
  \/ \E name \in Paths, f \in 0..2 : Remove(name, f)
  \/ \E name \in Paths, f \in 0..5 : RemoveDir(name, f)
  \/ \E oldpath \in RenamePaths, newpath \in RenamePaths, f \in 0..3 :
        RenameBegin(oldpath, newpath, f)
  \/ \E f \in 0..2 : RenameRemove(f)
  \/ Return

SpecFs == FsInit /\ [][FsNext]_vars

(***************************************************************************)
(* File handles and the streaming bridges                                  *)
(*                                                                         *)
(* The pipe of a handle is a pipeat pipe made by PipeInDir.  Its backing   *)
(* file is unbounded.  A Read of its reader end blocks until the bytes it  *)
(* asks for are written or the writer end is closed.  Close of its writer  *)
(* end blocks until the reader end is closed, and returns nil.             *)
(***************************************************************************)

\* Paths the caller opens and creates files at.
FilePaths == {<<>>, <<"a">>, <<"/", "a", "/", "b">>, <<"b">>}

\* Stores the handle operations start from.
FileStores == {EmptyStore, PutObj(EmptyStore, <<"a", "/", "b">>, <<2, 1, 2>>)}

\* The byte strings of a given length.
RECURSIVE BytesOfLen(_)
BytesOfLen(n) ==
  IF n = 0 THEN {<<>>} ELSE {Append(b, x) : b \in BytesOfLen(n - 1), x \in Bytes}

\* The buffers the caller passes to Write, and to WriteAt.
WriteBufs == BytesOfLen(1) \cup BytesOfLen(2)
WriteAtBufs == BytesOfLen(1)

\* The arguments the caller passes to Seek.
SeekOffsets == {-1, 0, 1, MaxLen}
Whences == {"io.SeekStart", "io.SeekCurrent", "io.SeekEnd"}

FileInit ==
  /\ store \in FileStores
  /\ cfg \in {c \in Configs : ~c.timeout}
  /\ pc = "idle"
  /\ last = NoCall
  /\ HandleInit

\* The key the transfers of a handle address: fs.withPrefix(f.Name()).
FileKey(c, f) == withPrefix(c.prefix, <<f.name>>)

\* CreateWithContext without the check that the path is not a directory.
CreateWithContext_noDirCheck(st, c, name, ok) ==
  Let(StatWithContext(st, c, name, ok), LAMBDA stat :
    IF stat.err # ErrNil /\ stat.err # ErrNotExist
    THEN [err |-> stat.err, file |-> NoFile, reqs |-> stat.reqs]
    ELSE [err |-> ErrNil,
          file |-> [NoFile EXCEPT !.writer = TRUE, !.name = cleanPath(name)],
          reqs |-> stat.reqs])

\* Fs.CreateWithContext up to openWriter: the error, and the File it builds.
CreateWithContext(st, c, name, ok) ==
  Let(StatWithContext(st, c, name, ok), LAMBDA stat :
    IF stat.err # ErrNil /\ stat.err # ErrNotExist
    THEN [err |-> stat.err, file |-> NoFile, reqs |-> stat.reqs]
    ELSE IF stat.info.isDir
    THEN [err |-> Err("fs.ErrExist", "named file is a directory"),
          file |-> NoFile, reqs |-> stat.reqs]
    ELSE [err |-> ErrNil,
          file |-> [NoFile EXCEPT !.writer = TRUE, !.name = cleanPath(name)],
          reqs |-> stat.reqs])

\* Fs.CreateWithContext and File.openWriter: a new pipe, and the upload
\* goroutine started on its reader end.
Create(name, ok) ==
  /\ pc = "idle"
  /\ handles < MaxHandles
  /\ \E r \in {CreateWithContext(store, cfg, name, ok)} :
     \E key \in {FileKey(cfg, r.file)} :
        /\ r.err = ErrNil =>
             (key \in Keys(store) \/ Cardinality(Keys(store)) < MaxObjs)
        /\ last' = [Call("Create", name, <<>>, store) EXCEPT !.err = r.err, !.reqs = r.reqs]
        /\ IF r.err = ErrNil
           THEN /\ file' = r.file
                /\ pipe' = NoPipe
                /\ task' = [NoTask EXCEPT !.kind = "upload", !.state = "running", !.key = key]
                /\ sent' = [NoSent EXCEPT !.key = key, !.pre = store,
                              !.fresh = key \notin Keys(store)]
                /\ got' = <<>>
                /\ handles' = handles + 1
                /\ UNCHANGED writes
           ELSE UNCHANGED hVars
  /\ pc' = "returned"
  /\ UNCHANGED fsVars

\* The cells of the backing file after b is written at offset off.
WriteCells(data, b, off) ==
  [i \in 1..(IF Len(data) > off + Len(b) THEN Len(data) ELSE off + Len(b)) |->
     IF i > off /\ i <= off + Len(b) THEN b[i - off]
     ELSE IF i <= Len(data) THEN data[i] ELSE 0]

\* The end of the written run that starts at offset 0, once the run reaches
\* e and the offsets in ahead are written too.
RECURSIVE Absorb(_, _)
Absorb(e, ahead) == IF e + 1 \in ahead THEN Absorb(e + 1, ahead) ELSE e

\* PipeWriterAt.WriteAt that appends whatever the offset.
PipeWriteAt_appends(p, b, off) ==
  IF p.eow \/ p.eor
  THEN [n |-> 0, err |-> ErrClosedPipe, pipe |-> p]
  ELSE [n |-> Len(b), err |-> ErrNil,
        pipe |-> [p EXCEPT !.data = WriteCells(@, b, p.endln), !.endln = @ + Len(b)]]

\* PipeWriterAt.WriteAt: fails once either end of the pipe is closed; else
\* writes into the backing file, and lengthens the readable run when the
\* write starts at its end.
PipeWriteAt(p, b, off) ==
  IF p.eow \/ p.eor
  THEN [n |-> 0, err |-> ErrClosedPipe, pipe |-> p]
  ELSE LET cells == WriteCells(p.data, b, off)
           e == IF off = p.endln THEN Absorb(off + Len(b), p.ahead) ELSE p.endln
           ahead == IF off = p.endln THEN p.ahead
                    ELSE p.ahead \cup ((off + 1)..(off + Len(b)))
       IN [n |-> Len(b), err |-> ErrNil,
           pipe |-> [p EXCEPT !.data = cells, !.endln = e,
                       !.ahead = {i \in ahead : i > e}]]

\* PipeWriterAt.Write: WriteAt at the offset after the last Write.
PipeWrite(p, b) ==
  LET w == PipeWriteAt(p, b, p.writeroff)
  IN [w EXCEPT !.pipe.writeroff = @ + w.n]

\* The caller's record after a write of b at offset off was accepted.
Wrote(s, b, off) ==
  [s EXCEPT !.src = WriteCells(@, b, off),
            !.cover = @ \cup ((off + 1)..(off + Len(b))),
            !.overlap = @ \/ (\E i \in (off + 1)..(off + Len(b)) : i \in s.cover),
            !.outOfOrder = @ \/ (off > 0 /\ off \notin s.cover)]

\* File.Write
Write(b) ==
  /\ pc = "idle"
  /\ (file.reader \/ file.writer)
  /\ writes < MaxWrites
  /\ pipe.writeroff + Len(b) <= MaxLen
  /\ IF ~file.writer
     THEN /\ last' = [Call("Write", file.name, <<>>, store) EXCEPT
                        !.err = Err("fs.ErrClosed", "file not open for writing")]
          /\ UNCHANGED <<pipe, sent>>
     ELSE LET w == PipeWrite(pipe, b)
          IN /\ last' = [Call("Write", file.name, <<>>, store) EXCEPT !.err = w.err, !.n = w.n]
             /\ pipe' = w.pipe
             /\ sent' = [(IF w.err = ErrNil THEN Wrote(sent, b, pipe.writeroff) ELSE sent)
                           EXCEPT !.data = @ \o SubSeq(b, 1, w.n)]
  /\ pc' = "returned"
  /\ writes' = writes + 1
  /\ UNCHANGED <<fsVars, file, task, got, handles>>

\* File.WriteAt
WriteAt(b, off) ==
  /\ pc = "idle"
  /\ (file.reader \/ file.writer)
  /\ writes < MaxWrites
  /\ off + Len(b) <= MaxLen
  /\ IF ~file.writer
     THEN /\ last' = [Call("WriteAt", file.name, <<>>, store) EXCEPT
                        !.err = Err("fs.ErrClosed", "file not open for writing")]
          /\ UNCHANGED <<pipe, sent>>
     ELSE LET w == PipeWriteAt(pipe, b, off)
          IN /\ last' = [Call("WriteAt", file.name, <<>>, store) EXCEPT
                           !.err = w.err, !.n = w.n]
             /\ pipe' = w.pipe
             /\ sent' = [(IF w.err = ErrNil THEN Wrote(sent, b, off) ELSE sent)
                           EXCEPT !.at = TRUE]
  /\ pc' = "returned"
  /\ writes' = writes + 1
  /\ UNCHANGED <<fsVars, file, task, got, handles>>

\* The bytes of the pipe the upload can read and has not read yet.
Unread(p, t) == SubSeq(p.data, t.off + 1, p.endln)

\* Whether the uploader's read of the next part returns a full part.
UploadHasFullPart(p, t) == Len(Unread(p, t)) >= PartSize

\* Whether the uploader's read of the next part meets the end of the pipe:
\* the writer end is closed and less than a part is left.
UploadSeesEOF_beforeClose(p, t) == Len(Unread(p, t)) < PartSize
UploadSeesEOF(p, t) == p.eow /\ Len(Unread(p, t)) < PartSize

\* The body the upload commits: the parts it has sent and what is left in
\* the pipe.
UploadBody_withoutLastPart(p, t) == t.body
UploadBody(p, t) == t.body \o Unread(p, t)

\* The upload goroutine ends: r.CloseWithError(err).
UploadEnd(p, err) == [p EXCEPT !.eor = TRUE, !.rerr = IF err = ErrNil THEN EOF ELSE err]

\* The upload goroutine reads a full part and sends it; a part that is sent
\* is not visible in the store.  ok: whether the request succeeds.
UploadPart(ok) ==
  /\ task.kind = "upload" /\ task.state = "running"
  /\ UploadHasFullPart(pipe, task)
  /\ IF ok
     THEN /\ task' = [task EXCEPT !.off = @ + PartSize, !.parts = @ + 1,
                        !.body = @ \o SubSeq(Unread(pipe, task), 1, PartSize)]
          /\ UNCHANGED pipe
     ELSE /\ task' = [task EXCEPT !.state = "failed"]
          /\ pipe' = UploadEnd(pipe, TransportErr("UploadPart"))
  /\ UNCHANGED <<fsVars, pc, last, file, sent, got, handles, writes>>

\* The upload goroutine meets the end of the pipe and commits: PutObject of
\* the whole body when no part was sent, else the last part and
\* CompleteMultipartUpload.  ok: whether the requests succeed.
UploadFinish(ok) ==
  /\ task.kind = "upload" /\ task.state = "running"
  /\ UploadSeesEOF(pipe, task)
  /\ IF ok
     THEN /\ store' = PutObj(store, task.key, UploadBody(pipe, task))
          /\ task' = [task EXCEPT !.state = "done", !.off = pipe.endln,
                        !.body = UploadBody(pipe, task)]
          /\ pipe' = UploadEnd(pipe, ErrNil)
     ELSE /\ task' = [task EXCEPT !.state = "failed"]
          /\ pipe' = UploadEnd(pipe, TransportErr(IF task.parts = 0 THEN "PutObject"
                                                  ELSE "CompleteMultipartUpload"))
          /\ UNCHANGED store
  /\ UNCHANGED <<cfg, pc, last, file, sent, got, handles, writes>>

\* Fs.OpenWithContext: Stat, then a Directory or a File with openReaderAt(0),
\* which starts the download goroutine on the writer end of a new pipe.
Open(name, ok) ==
  /\ pc = "idle"
  /\ handles < MaxHandles
  /\ \E stat \in {StatWithContext(store, cfg, name, ok)} :
     \E f \in {[NoFile EXCEPT !.reader = TRUE, !.name = stat.info.name,
                  !.size = stat.info.size]} :
        /\ last' = [Call("Open", name, <<>>, store) EXCEPT
                      !.err = stat.err, !.info = stat.info, !.reqs = stat.reqs]
        /\ IF stat.err = ErrNil /\ ~stat.info.isDir
           THEN /\ file' = f
                /\ pipe' = NoPipe
                /\ task' = [NoTask EXCEPT !.kind = "download", !.state = "running",
                              !.key = FileKey(cfg, f)]
                /\ got' = <<>>
                /\ handles' = handles + 1
           ELSE UNCHANGED <<file, pipe, task, got, handles>>
  /\ pc' = "returned"
  /\ UNCHANGED <<fsVars, sent, writes>>

\* The download goroutine ends and closes the writer end without its error.
DownloadEnd_dropsError(p, err) == [p EXCEPT !.eow = TRUE, !.werr = EOF]

\* The download goroutine ends: w.CloseWithError(err).
DownloadEnd(p, err) == [p EXCEPT !.eow = TRUE, !.werr = IF err = ErrNil THEN EOF ELSE err]

\* The download goroutine fetches the next part of the object (GetObject
\* with a range of PartSize bytes) and writes it into the pipe; after the
\* last part, and for an empty object, it closes the writer end.  A download
\* that openReaderAt started with a Range ("bytes=base-", base > 0) is one
\* GetObject of that range, written into the pipe from offset 0; the store
\* rejects a range that starts at or after the end of the object.  The fetch
\* fails when the store fails it (~ok), when the object is gone, and when
\* the handle was closed (context cancelled, reader end closed).
DownloadChunk(ok) ==
  /\ task.kind = "download" /\ task.state = "running"
  /\ IF ~ok \/ task.key \notin Keys(store) \/ pipe.eor
     THEN /\ task' = [task EXCEPT !.state = "failed", !.cancelled = TRUE]
          /\ pipe' = DownloadEnd(pipe, TransportErr("GetObject"))
     ELSE IF task.base > 0
     THEN IF task.base >= Len(store[task.key])
          THEN /\ task' = [task EXCEPT !.state = "failed", !.cancelled = TRUE]
               /\ pipe' = DownloadEnd(pipe, Err("InvalidRange", "GetObject"))
          ELSE LET body == store[task.key]
                   w == PipeWriteAt(pipe, SubSeq(body, task.base + 1, Len(body)), 0)
               IN /\ task' = [task EXCEPT !.state = "done", !.cancelled = TRUE, !.off = Len(body) - task.base]
                  /\ pipe' = DownloadEnd(w.pipe, ErrNil)
     ELSE LET body == store[task.key]
              end == Min2(task.off + PartSize, Len(body))
              w == PipeWriteAt(pipe, SubSeq(body, task.off + 1, end), task.off)
          IN IF end >= Len(body)
             THEN /\ task' = [task EXCEPT !.state = "done", !.cancelled = TRUE, !.off = end]
                  /\ pipe' = DownloadEnd(w.pipe, ErrNil)
             ELSE /\ task' = [task EXCEPT !.off = end]
                  /\ pipe' = w.pipe
  /\ UNCHANGED <<fsVars, pc, last, file, sent, got, handles, writes>>

\* Whether PipeReaderAt.Read of n bytes can return: the reader end is closed,
\* the bytes are there, or the writer end is closed.
PipeCanRead(p, n) == p.eor \/ p.endln - p.readeroff >= n \/ p.eow

\* PipeReaderAt.Read of n bytes: the error of the closed reader end; else the
\* bytes at readeroff, short and with the writer's error (io.EOF after a
\* clean close) when the writer end is closed before n bytes.
PipeRead(p, n) ==
  LET k == Min2(n, p.endln - p.readeroff)
  IN IF p.eor
     THEN [n |-> 0, bytes |-> <<>>, err |-> p.rerr, pipe |-> p]
     ELSE [n |-> k,
           bytes |-> SubSeq(p.data, p.readeroff + 1, p.readeroff + k),
           err |-> IF k = n THEN ErrNil ELSE p.werr,
           pipe |-> [p EXCEPT !.readeroff = @ + k]]

\* File.Read with a buffer of n bytes.
Read(n) ==
  /\ pc = "idle"
  /\ (file.reader \/ file.writer)
  /\ IF ~file.reader
     THEN /\ last' = [Call("Read", file.name, <<>>, store) EXCEPT
                        !.err = Err("fs.ErrClosed", "file not open for reading")]
          /\ UNCHANGED <<pipe, file, got>>
     ELSE /\ PipeCanRead(pipe, n)
          /\ LET r == PipeRead(pipe, n)
             IN /\ last' = [Call("Read", file.name, <<>>, store) EXCEPT
                              !.err = r.err, !.n = r.n, !.bytes = r.bytes]
                /\ pipe' = r.pipe
                /\ got' = got \o r.bytes
                /\ file' = IF r.err # ErrNil THEN file
                           ELSE [file EXCEPT !.offset = @ + r.n]
  /\ pc' = "returned"
  /\ UNCHANGED <<fsVars, task, sent, handles, writes>>

\* Whether PipeReaderAt.ReadAt of n bytes at offset off can return.
PipeCanReadAt(p, n, off) == p.eor \/ p.endln >= off + n \/ p.eow

\* PipeReadAt reading at the offset of Read instead of the offset given.
PipeReadAt_atReadOffset(p, n, off) ==
  LET k == IF p.endln > p.readeroff THEN Min2(n, p.endln - p.readeroff) ELSE 0
  IN IF p.eor
     THEN [n |-> 0, bytes |-> <<>>, err |-> p.rerr]
     ELSE [n |-> k,
           bytes |-> SubSeq(p.data, p.readeroff + 1, p.readeroff + k),
           err |-> IF k = n THEN ErrNil ELSE p.werr]

\* PipeReaderAt.ReadAt of n bytes at offset off of the pipe: as Read, at the
\* given offset, and without moving the offset of Read.
PipeReadAt(p, n, off) ==
  LET k == IF p.endln > off THEN Min2(n, p.endln - off) ELSE 0
  IN IF p.eor
     THEN [n |-> 0, bytes |-> <<>>, err |-> p.rerr]
     ELSE [n |-> k,
           bytes |-> SubSeq(p.data, off + 1, off + k),
           err |-> IF k = n THEN ErrNil ELSE p.werr]

\* File.ReadAt with a buffer of n bytes: the offset goes to the pipe as it is.
ReadAt(n, off) ==
  /\ pc = "idle"
  /\ (file.reader \/ file.writer)
  /\ IF ~file.reader
     THEN last' = [Call("ReadAt", file.name, <<>>, store) EXCEPT
                     !.err = Err("fs.ErrClosed", "file not open for reading"),
                     !.off = off]
     ELSE /\ PipeCanReadAt(pipe, n, off)
          /\ \E r \in {PipeReadAt(pipe, n, off)} :
                last' = [Call("ReadAt", file.name, <<>>, store) EXCEPT
                           !.err = r.err, !.n = r.n, !.bytes = r.bytes, !.off = off]
  /\ pc' = "returned"
  /\ UNCHANGED <<fsVars, hVars>>

\* The offset in the object that Seek(offset, whence) addresses.
SeekStart(f, offset, whence) ==
  CASE whence = "io.SeekStart" -> offset
    [] whence = "io.SeekCurrent" -> f.offset + offset
    [] whence = "io.SeekEnd" -> f.size - offset

\* The record of a Seek call.
SeekCall(offset, whence) ==
  [Call("Seek", file.name, <<>>, store) EXCEPT !.off = offset, !.whence = whence]

\* File.Seek on any handle: the check that the handle has a reader left out.
Seek_onAnyHandle(offset, whence) ==
  /\ pc = "idle"
  /\ (file.reader \/ file.writer)
  /\ \E start \in {SeekStart(file, offset, whence)} :
     IF start < 0 \/ start > file.size
     THEN /\ last' = [SeekCall(offset, whence) EXCEPT
                        !.err = Err("fs.ErrInvalid", "seek")]
          /\ UNCHANGED hVars
     ELSE IF pipe.eor
     THEN /\ last' = [SeekCall(offset, whence) EXCEPT
                        !.err = Err("os.ErrClosed", "file already closed"), !.n = start]
          /\ task' = CancelTask(task)
          /\ UNCHANGED <<file, pipe, sent, got, handles, writes>>
     ELSE /\ handles < MaxHandles
          /\ last' = [SeekCall(offset, whence) EXCEPT !.n = start]
          /\ file' = [file EXCEPT !.reader = TRUE, !.offset = start]
          /\ pipe' = NoPipe
          /\ task' = [NoTask EXCEPT !.kind = "download", !.state = "running",
                        !.key = FileKey(cfg, file), !.base = start,
                        !.stale = Uncancelled(CancelTask(task))]
          /\ got' = <<>>
          /\ handles' = handles + 1
          /\ UNCHANGED <<sent, writes>>
  /\ pc' = "returned"
  /\ UNCHANGED fsVars

\* File.Seek that opens a new reader although closing the current one fails.
Seek_reopensClosed(offset, whence) ==
  /\ pc = "idle"
  /\ (file.reader \/ file.writer)
  /\ \E start \in {SeekStart(file, offset, whence)} :
     IF ~file.reader
     THEN /\ last' = [SeekCall(offset, whence) EXCEPT
                        !.err = Err("fs.ErrClosed", "seek only supported for reading")]
          /\ UNCHANGED hVars
     ELSE IF start < 0 \/ start > file.size
     THEN /\ last' = [SeekCall(offset, whence) EXCEPT
                        !.err = Err("fs.ErrInvalid", "seek")]
          /\ UNCHANGED hVars
     ELSE /\ handles < MaxHandles
          /\ last' = [SeekCall(offset, whence) EXCEPT !.n = start]
          /\ file' = [file EXCEPT !.reader = TRUE, !.offset = start]
          /\ pipe' = NoPipe
          /\ task' = [NoTask EXCEPT !.kind = "download", !.state = "running",
                        !.key = FileKey(cfg, file), !.base = start,
                        !.stale = Uncancelled(CancelTask(task))]
          /\ got' = <<>>
          /\ handles' = handles + 1
          /\ UNCHANGED <<sent, writes>>
  /\ pc' = "returned"
  /\ UNCHANGED fsVars

\* File.Seek without the check of the target against the size of the object.
Seek_noBoundsCheck(offset, whence) ==
  /\ pc = "idle"
  /\ (file.reader \/ file.writer)
  /\ \E start \in {SeekStart(file, offset, whence)} :
     IF ~file.reader
     THEN /\ last' = [SeekCall(offset, whence) EXCEPT
                        !.err = Err("fs.ErrClosed", "seek only supported for reading")]
          /\ UNCHANGED hVars
     ELSE IF pipe.eor
     THEN /\ last' = [SeekCall(offset, whence) EXCEPT
                        !.err = Err("os.ErrClosed", "file already closed"), !.n = start]
          /\ task' = CancelTask(task)
          /\ UNCHANGED <<file, pipe, sent, got, handles, writes>>
     ELSE /\ handles < MaxHandles
          /\ last' = [SeekCall(offset, whence) EXCEPT !.n = start]
          /\ file' = [file EXCEPT !.reader = TRUE, !.offset = start]
          /\ pipe' = NoPipe
          /\ task' = [NoTask EXCEPT !.kind = "download", !.state = "running",
                        !.key = FileKey(cfg, file), !.base = start,
                        !.stale = Uncancelled(CancelTask(task))]
          /\ got' = <<>>
          /\ handles' = handles + 1
          /\ UNCHANGED <<sent, writes>>
  /\ pc' = "returned"
  /\ UNCHANGED fsVars

\* File.Seek that does not cancel the download it replaces.
Seek_noCancel(offset, whence) ==
  /\ pc = "idle"
  /\ (file.reader \/ file.writer)
  /\ \E start \in {SeekStart(file, offset, whence)} :
     IF ~file.reader
     THEN /\ last' = [SeekCall(offset, whence) EXCEPT
                        !.err = Err("fs.ErrClosed", "seek only supported for reading")]
          /\ UNCHANGED hVars
     ELSE IF start < 0 \/ start > file.size
     THEN /\ last' = [SeekCall(offset, whence) EXCEPT
                        !.err = Err("fs.ErrInvalid", "seek")]
          /\ UNCHANGED hVars
     ELSE IF pipe.eor
     THEN /\ last' = [SeekCall(offset, whence) EXCEPT
                        !.err = Err("os.ErrClosed", "file already closed"), !.n = start]
          /\ task' = task
          /\ UNCHANGED <<file, pipe, sent, got, handles, writes>>
     ELSE /\ handles < MaxHandles
          /\ last' = [SeekCall(offset, whence) EXCEPT !.n = start]
          /\ file' = [file EXCEPT !.reader = TRUE, !.offset = start]
          /\ pipe' = NoPipe
          /\ task' = [NoTask EXCEPT !.kind = "download", !.state = "running",
                        !.key = FileKey(cfg, file), !.base = start,
                        !.stale = Uncancelled(task)]
          /\ got' = <<>>
          /\ handles' = handles + 1
          /\ UNCHANGED <<sent, writes>>
  /\ pc' = "returned"
  /\ UNCHANGED fsVars

\* File.Seek and File.openReaderAt: rejected on a handle without reader and
\* for an offset outside the object (of the size Stat saw at Open); else the
\* current reader is closed (an error if it is closed already), its download
\* cancelled, and a download from the new offset started on a new pipe.
Seek(offset, whence) ==
  /\ pc = "idle"
  /\ (file.reader \/ file.writer)
  /\ \E start \in {SeekStart(file, offset, whence)} :
     IF ~file.reader
     THEN /\ last' = [SeekCall(offset, whence) EXCEPT
                        !.err = Err("fs.ErrClosed", "seek only supported for reading")]
          /\ UNCHANGED hVars
     ELSE IF start < 0 \/ start > file.size
     THEN /\ last' = [SeekCall(offset, whence) EXCEPT
                        !.err = Err("fs.ErrInvalid", "seek")]
          /\ UNCHANGED hVars
     ELSE IF pipe.eor
     THEN /\ last' = [SeekCall(offset, whence) EXCEPT
                        !.err = Err("os.ErrClosed", "file already closed"), !.n = start]
          /\ task' = CancelTask(task)
          /\ UNCHANGED <<file, pipe, sent, got, handles, writes>>
     ELSE /\ handles < MaxHandles
          /\ last' = [SeekCall(offset, whence) EXCEPT !.n = start]
          /\ file' = [file EXCEPT !.reader = TRUE, !.offset = start]
          /\ pipe' = NoPipe
          /\ task' = [NoTask EXCEPT !.kind = "download", !.state = "running",
                        !.key = FileKey(cfg, file), !.base = start,
                        !.stale = Uncancelled(CancelTask(task))]
          /\ got' = <<>>
          /\ handles' = handles + 1
          /\ UNCHANGED <<sent, writes>>
  /\ pc' = "returned"
  /\ UNCHANGED fsVars

\* PipeWriterAt.Close once the reader end is closed: the error it returns.
PipeWriterClose(p) == ErrNil

\* File.Close, first part.  On a read handle: close the reader end (closing
\* the backing file a second time is an error, and Close returns it before
\* it reaches readerCancelFn) and cancel the download.  On
\* a write handle: close the writer end and wait for the reader end.
Close ==
  /\ pc = "idle"
  /\ (file.reader \/ file.writer)
  /\ IF file.reader
     THEN /\ last' = [Call("Close", file.name, <<>>, store) EXCEPT
                        !.err = IF pipe.eor THEN Err("os.ErrClosed", "file already closed")
                                ELSE ErrNil]
          /\ pipe' = [pipe EXCEPT !.eor = TRUE, !.rerr = EOF]
          /\ file' = [file EXCEPT !.closed = TRUE]
          /\ task' = IF pipe.eor THEN task ELSE CancelTask(task)
          /\ pc' = "returned"
          /\ UNCHANGED sent
     ELSE /\ last' = Call("Close", file.name, <<>>, store)
          /\ pipe' = IF pipe.eow THEN pipe ELSE [pipe EXCEPT !.eow = TRUE, !.werr = EOF]
          /\ sent' = [sent EXCEPT !.closeCalled = TRUE]
          /\ pc' = "Close"
          /\ UNCHANGED <<file, task>>
  /\ UNCHANGED <<fsVars, got, handles, writes>>

\* File.Close on a write handle, second part: the reader end is closed,
\* writer.Close returns, the context of the upload is cancelled.
CloseReturn ==
  /\ pc = "Close"
  /\ pipe.eor
  /\ last' = [last EXCEPT !.err = PipeWriterClose(pipe)]
  /\ file' = [file EXCEPT !.closed = TRUE]
  /\ sent' = [sent EXCEPT !.closedNil = (PipeWriterClose(pipe) = ErrNil)]
  /\ pc' = "returned"
  /\ UNCHANGED <<fsVars, pipe, task, got, handles, writes>>

FileNext ==
  \/ \E name \in FilePaths, ok \in BOOLEAN : Create(name, ok)
  \/ \E b \in WriteBufs : Write(b)
  \/ \E b \in WriteAtBufs, off \in 0..(MaxLen - 1) : WriteAt(b, off)
  \/ \E ok \in BOOLEAN : UploadPart(ok)
  \/ \E ok \in BOOLEAN : UploadFinish(ok)
  \/ Close
  \/ CloseReturn
  \/ \E name \in FilePaths, ok \in BOOLEAN : Open(name, ok)
  \/ \E ok \in BOOLEAN : DownloadChunk(ok)
  \/ \E n \in 1..PartSize : Read(n)
  \/ \E n \in 1..PartSize, off \in 0..(MaxLen - 1) : ReadAt(n, off)
  \/ \E offset \in SeekOffsets, whence \in Whences : Seek(offset, whence)
  \/ Return

SpecFile == FileInit /\ [][FileNext]_vars

(***************************************************************************)
(* The operations of the facade that change the store, one at a time, from *)
(* an empty store                                                          *)
(***************************************************************************)

\* Fs.Create, Write of b and Close on the handle, with an upload that the
\* store does not fail: the object is at the key of the handle when Close
\* has returned.  ok: whether the listing of Stat succeeds.
CreateFile(name, b, ok) ==
  /\ pc = "idle"
  /\ \E r \in {CreateWithContext(store, cfg, name, ok)} :
     \E key \in {FileKey(cfg, r.file)} :
        /\ r.err = ErrNil =>
             (key \in Keys(store) \/ Cardinality(Keys(store)) < MaxObjs)
        /\ last' = [Call("Create", name, <<>>, store) EXCEPT !.err = r.err, !.reqs = r.reqs]
        /\ store' = IF r.err = ErrNil THEN PutObj(store, key, b) ELSE store
  /\ pc' = "returned"
  /\ UNCHANGED cfg
  /\ UNCHANGED hVars

OpsNext ==
  \/ \E name \in Paths, b \in WriteAtBufs, ok \in BOOLEAN : CreateFile(name, b, ok)
  \/ \E name \in Paths, f \in 0..2 : CreateDir(name, f)
  \/ \E name \in Paths, f \in 0..2 : Remove(name, f)
  \/ \E name \in Paths, f \in 0..5 : RemoveDir(name, f)
  \/ \E oldpath \in RenamePaths, newpath \in RenamePaths, f \in 0..3 :
        RenameBegin(oldpath, newpath, f)
  \/ \E f \in 0..2 : RenameRemove(f)
  \/ Return

SpecOps == FsInit /\ [][OpsNext]_vars

(***************************************************************************)
(* cleanPath applied to a string and to its own result                     *)
(***************************************************************************)

\* The strings given to cleanPath: a name character, "." and "/", up to
\* MaxPathLen characters.
MaxPathLen == 4
PathChars == {"a", ".", "/"}

RECURSIVE StrsOfLen(_)
StrsOfLen(n) ==
  IF n = 0 THEN {<<>>} ELSE {Append(p, c) : p \in StrsOfLen(n - 1), c \in PathChars}

CleanInputs == UNION {StrsOfLen(n) : n \in 0..MaxPathLen}

CleanInit ==
  /\ store = EmptyStore
  /\ cfg = [prefix |-> WithPrefix(<<>>), directoryFile |-> WithDirectoryFile(<<>>),
            timeout |-> FALSE]
  /\ pc = "idle"
  /\ \E name \in CleanInputs : last = [NoCall EXCEPT !.name = name]
  /\ HandleInit

\* cleanPath(name): the result is kept in last.name2.
Clean ==
  /\ pc = "idle"
  /\ last' = [last EXCEPT !.op = "cleanPath", !.name2 = cleanPath(last.name)]
  /\ pc' = "cleanPath"
  /\ UNCHANGED <<fsVars, hVars>>

\* cleanPath of the result of cleanPath: the result is kept in last.info.name.
CleanAgain ==
  /\ pc = "cleanPath"
  /\ last' = [last EXCEPT !.info.name = cleanPath(last.name2)]
  /\ pc' = "returned"
  /\ UNCHANGED <<fsVars, hVars>>

CleanNext == Clean \/ CleanAgain

SpecClean == CleanInit /\ [][CleanNext]_vars

(***************************************************************************)
(* Properties of the facade                                                *)
(***************************************************************************)

\* key(path) of the configured filesystem.
Key(name) == withPrefix(cfg.prefix, <<name>>)

Returned(op) == pc = "returned" /\ last.op = op

\* The store requests of the last call that change the store.
MutatingReqs == {i \in DOMAIN last.reqs : last.reqs[i].op # "ListObjectsV2"}

\* What Stat reports for a path in the store as it was before the last call.
StatBefore(name) == StatWithContext(last.pre, cfg, name, TRUE)
IsDirBefore(name) == StatBefore(name).err = ErrNil /\ StatBefore(name).info.isDir
IsFileBefore(name) == StatBefore(name).err = ErrNil /\ ~StatBefore(name).info.isDir

C5_RenameRejectsDirectory ==
  (/\ pc \in {"returned", "RenameRemove"} /\ last.op = "Rename"
   /\ (IsDirBefore(last.name) \/ IsDirBefore(last.name2))) =>
    /\ pc = "returned"
    /\ last.err # ErrNil
    /\ MutatingReqs = {}
    /\ store = last.pre

\* A Rename of a file onto a directory that was rejected.
C5_Witness ==
  /\ Returned("Rename")
  /\ IsFileBefore(last.name) /\ IsDirBefore(last.name2)
  /\ last.err = Err("fs.ErrInvalid", "newpath is a directory")

\* The Rename calls whose copy succeeded and whose DeleteObject failed.
RenameHalfDone ==
  /\ Returned("Rename") /\ last.copied
  /\ last.reqs[Len(last.reqs)].op = "DeleteObject"
  /\ last.err # ErrNil

\* C6: if the copy of a Rename succeeds and the delete fails, the object is
\* present at both keys and the error is of a kind distinct from that of a
\* failed copy, a failed metadata lookup or any other failure.
C6_RenameHalfDoneIsDistinct ==
  RenameHalfDone =>
    /\ Key(last.name) \in Keys(store) /\ Key(last.name2) \in Keys(store)
    /\ store[Key(last.name2)] = store[Key(last.name)]
    /\ last.err.kind \notin {TransportErr("CopyObject").kind,
                             TransportErr("ListObjectsV2").kind,
                             "fs.ErrInvalid", "fs.ErrNotExist", "fs.ErrExist"}

\* Whether some key lies under key + "/".
HasKeysUnder(st, key) == \E k \in Keys(st) : HasPrefix(k, key \o pathSeparator)

\* C7: for a non-root path with no object at exactly key(path), Stat reports
\* a directory if and only if the store holds a key beginning with
\* key(path) + "/", whatever other keys share key(path) as a string prefix;
\* its listing request is capped at one result.
C7_StatDirectoryIffKeysUnder ==
  (/\ Returned("Stat")
   /\ last.err \in {ErrNil, ErrNotExist}
   /\ cleanPath(last.name) # <<>>
   /\ Key(last.name) \notin Keys(last.pre)) =>
    /\ (last.err = ErrNil /\ last.info.isDir) <=> HasKeysUnder(last.pre, Key(last.name))
    /\ \A i \in DOMAIN last.reqs : last.reqs[i].maxKeys = 1

\* C8: Stat reports a file, with the name and the size of the object, whenever
\* an object exists at exactly key(path), whatever other keys exist and with
\* or without a configured prefix.
C8_StatFile ==
  (/\ Returned("Stat")
   /\ last.err \in {ErrNil, ErrNotExist}
   /\ cleanPath(last.name) # <<>>
   /\ Key(last.name) \in Keys(last.pre)) =>
    /\ last.err = ErrNil
    /\ ~last.info.isDir
    /\ last.info.name = cleanPath(last.name)
    /\ last.info.size = Len(last.pre[Key(last.name)])

\* A Stat of a file under a configured prefix, next to a key that has the
\* file's key as a string prefix.
C8_Witness ==
  /\ Returned("Stat") /\ last.err = ErrNil /\ ~last.info.isDir
  /\ cfg.prefix # <<>>
  /\ \E k \in Keys(last.pre) : k # Key(last.name) /\ HasPrefix(k, Key(last.name))

\* The prefix of the keys under a path: key(path) + "/", empty for the root
\* of a filesystem without prefix.
DirKey(name) == IF Key(name) = <<>> THEN <<>> ELSE Key(name) \o pathSeparator

\* The immediate children of a path in a store: a directory for each first
\* segment of the keys nested deeper, a file for each key directly under
\* the path, the marker file left out.
Children(st, name) ==
  LET under == {k \in Keys(st) : HasPrefix(k, DirKey(name)) /\ k # DirKey(name)}
      rest(k) == SubSeq(k, Len(DirKey(name)) + 1, Len(k))
      seg(k) == SubSeq(rest(k), 1, IndexFrom(rest(k), "/", 1) - 1)
  IN {directoryFileInfo(seg(k)) : k \in {x \in under : IndexFrom(rest(x), "/", 1) # 0}}
     \cup {regularFileInfo(rest(k), Len(st[k])) :
             k \in {x \in under : IndexFrom(rest(x), "/", 1) = 0
                                  /\ rest(x) # cfg.directoryFile}}

\* C9: for a path that resolves to a directory, list returns "." plus
\* exactly the immediate children of the path.
C9_ListIsDotPlusChildren ==
  (Returned("ReadDir") /\ last.err = ErrNil /\ IsDirBefore(last.name)) =>
    /\ {last.entries[i] : i \in DOMAIN last.entries}
         = {directoryFileInfo(currentDirName)} \cup Children(last.pre, last.name)
    /\ Len(last.entries) = 1 + Cardinality(Children(last.pre, last.name))

\* C10: in every non-empty result of list, "." is the first entry and the
\* entries after it ascend by name.
C10_DotFirstThenSorted ==
  (Returned("ReadDir") /\ last.entries # <<>>) =>
    /\ last.entries[1].name = currentDirName
    /\ \A i, j \in 2..Len(last.entries) :
          i < j => ~StrLess(last.entries[j].name, last.entries[i].name)

\* C11: no result of list holds two entries of the same name, whatever the
\* number of pages and also when the store holds an object and a common
\* prefix of the same base name.
C11_NamesAreUnique ==
  Returned("ReadDir") =>
    \A i, j \in DOMAIN last.entries :
       last.entries[i].name = last.entries[j].name => i = j

\* Whether the last call ended with the error of a store request that failed.
StoreFailed == last.err.kind = TransportErr("").kind

\* C12: unless the store fails the request, list returns no entries and no
\* error for a path that Stat resolves to fs.ErrNotExist, and fails, with no
\* entries, for a path that Stat resolves to a file.
C12_ListOfMissingAndOfFile ==
  (Returned("ReadDir") /\ ~StoreFailed) =>
    /\ StatBefore(last.name).err = ErrNotExist =>
         (last.err = ErrNil /\ last.entries = <<>>)
    /\ IsFileBefore(last.name) =>
         (last.err = Err("fs.ErrInvalid", "cannot list a file") /\ last.entries = <<>>)

\* A listing of a path that does not exist in a bucket that holds objects.
C12_Witness ==
  /\ Returned("ReadDir") /\ last.err = ErrNil /\ last.entries = <<>>
  /\ StatBefore(last.name).err = ErrNotExist
  /\ Keys(last.pre) # {}

\* Remove of a path that does not resolve to a directory returns nil, leaves
\* no object at key(path) and every other key as it was.
RemoveDeletesOneKey ==
  /\ last.err = ErrNil
  /\ Key(last.name) \notin Keys(store)
  /\ Keys(store) = Keys(last.pre) \ {Key(last.name)}
  /\ \A k \in Keys(store) : store[k] = last.pre[k]

\* What Stat reports for a path in the store as it is after the last call.
IsDirAfter(name) ==
  /\ StatWithContext(store, cfg, name, TRUE).err = ErrNil
  /\ StatWithContext(store, cfg, name, TRUE).info.isDir

\* C13 as stated: unless the store fails a request, Remove of a path that
\* does not resolve to a directory returns nil, whether or not an object
\* exists at key(path); afterwards no object exists at key(path), every
\* other key is as before, and Remove of the path once more returns nil.
C13_RemoveTwiceSucceeds ==
  (Returned("Remove") /\ ~StoreFailed /\ ~IsDirBefore(last.name)) =>
    /\ RemoveDeletesOneKey
    /\ RemoveWithContext(store, cfg, last.name, 0).err = ErrNil

\* C13, amended: unless the store fails a request, Remove of a path that
\* does not resolve to a directory returns nil, whether or not an object
\* exists at key(path); afterwards no object exists at key(path) and every
\* other key is as before.  Remove of the path once more returns nil and
\* changes nothing, unless the path resolves to a directory once its object
\* is gone (keys lie under it): then the second Remove is rejected.
C13_RemoveOfNonDirectory ==
  (Returned("Remove") /\ ~StoreFailed /\ ~IsDirBefore(last.name)) =>
    /\ RemoveDeletesOneKey
    /\ RemoveWithContext(store, cfg, last.name, 0).store = store
    /\ IF IsDirAfter(last.name)
       THEN RemoveWithContext(store, cfg, last.name, 0).err
              = Err("fs.ErrInvalid", "named file is a directory")
       ELSE RemoveWithContext(store, cfg, last.name, 0).err = ErrNil

\* A Remove that deleted the object of a file and left the keys under the
\* path in place, so that the path resolves to a directory afterwards.
C13_Witness ==
  /\ Returned("Remove") /\ last.err = ErrNil
  /\ Key(last.name) \in Keys(last.pre)
  /\ Key(last.name) \notin Keys(store)
  /\ IsDirAfter(last.name)

\* C14: Remove of a path that Stat reports as a directory returns an error
\* and issues no delete request; every key of the store is unchanged.
C14_RemoveRejectsDirectory ==
  (Returned("Remove") /\ IsDirBefore(last.name)) =>
    /\ last.err # ErrNil
    /\ MutatingReqs = {}
    /\ store = last.pre

\* A Remove of a directory that holds keys, rejected.
C14_Witness ==
  /\ Returned("Remove")
  /\ last.err = Err("fs.ErrInvalid", "named file is a directory")
  /\ HasKeysUnder(last.pre, Key(last.name))
  /\ store = last.pre

\* The key of the marker object of a directory: key(path/<marker>).
MarkerKey(name) == withPrefix(cfg.prefix, <<name, cfg.directoryFile>>)

\* What list returns for a path in the store as it was before the last call,
\* and in the store as it is after it.
ListBefore(name) == ReadDirWithContext(last.pre, cfg, name, 0)
ListAfter(name) == ReadDirWithContext(store, cfg, name, 0)

\* Whether a listing has an entry besides ".".
HasOtherEntries(entries) ==
  \E i \in DOMAIN entries : entries[i].name # currentDirName

\* C15 as stated: unless the store fails a request, RemoveDir fails with the
\* not-empty error and leaves the store unchanged when list(path) has an
\* entry besides ".", and in every case where list(path) has no entry
\* besides "." it succeeds and the marker key is absent afterwards.
C15_RemoveDirByListing ==
  (Returned("RemoveDir") /\ ~StoreFailed) =>
    \A l \in ListBefore(last.name) :
       l.err = ErrNil =>
         IF HasOtherEntries(l.entries)
         THEN last.err = Err("fs.ErrInvalid", "directory not empty") /\ store = last.pre
         ELSE last.err = ErrNil /\ MarkerKey(last.name) \notin Keys(store)

\* C15, amended: unless the store fails a request, RemoveDir succeeds exactly
\* when list(path) is ["."]; the marker key is absent afterwards and every
\* other key is unchanged.  When list(path) has an entry besides "." and
\* also when it is empty (the path does not exist), RemoveDir fails with the
\* not-empty error and leaves the store unchanged.
C15_RemoveDirOnlyOfDot ==
  (Returned("RemoveDir") /\ ~StoreFailed) =>
    \A l \in ListBefore(last.name) :
       l.err = ErrNil =>
         IF l.entries = <<directoryFileInfo(currentDirName)>>
         THEN /\ last.err = ErrNil
              /\ MarkerKey(last.name) \notin Keys(store)
              /\ Keys(store) = Keys(last.pre) \ {MarkerKey(last.name)}
              /\ \A k \in Keys(store) : store[k] = last.pre[k]
         ELSE last.err = Err("fs.ErrInvalid", "directory not empty") /\ store = last.pre

\* A RemoveDir that deleted the marker object of a directory and left
\* another object in place.
C15_Witness ==
  /\ Returned("RemoveDir") /\ last.err = ErrNil
  /\ MarkerKey(last.name) \in Keys(last.pre)
  /\ MarkerKey(last.name) \notin Keys(store)
  /\ Keys(store) # {}

\* C16: unless the store fails a request, CreateDir of a path that exists as
\* a directory returns nil and leaves the store as it was.
C16_CreateDirTwiceSucceeds ==
  (Returned("CreateDir") /\ ~StoreFailed /\ IsDirBefore(last.name)) =>
    /\ last.err = ErrNil
    /\ store = last.pre

\* C17: unless the store fails a request, CreateDir returns an already-exists
\* error, puts no marker object and leaves the store unchanged whenever an
\* object exists at exactly key(path).
C17_CreateDirRejectsFile ==
  (Returned("CreateDir") /\ ~StoreFailed /\ Key(last.name) \in Keys(last.pre)) =>
    /\ last.err.kind = "fs.ErrExist"
    /\ MutatingReqs = {}
    /\ store = last.pre

\* A CreateDir of a file under a configured prefix, rejected.
C17_Witness ==
  /\ Returned("CreateDir")
  /\ last.err = Err("fs.ErrExist", "a file with the same name already exists")
  /\ IsFileBefore(last.name)
  /\ cfg.prefix # <<>>
  /\ store = last.pre

\* The parent of a path and the name of a path in its parent.
Parent(name) == cleanPath(pathJoin(<<name, <<".", ".">>>>))
Base(name) == pathBase(cleanPath(name))

\* Whether a path has more than one segment.
IsNested(name) == IndexFrom(cleanPath(name), "/", 1) # 0

\* C18: after CreateDir succeeds for a nested path, list of the path is
\* exactly ["."] and list of its parent has a directory entry of the base
\* name of the path.
C18_CreatedDirIsListed ==
  (Returned("CreateDir") /\ last.err = ErrNil /\ IsNested(last.name)) =>
    /\ \A l \in ListAfter(last.name) :
          l.err = ErrNil /\ l.entries = <<directoryFileInfo(currentDirName)>>
    /\ \A l \in ListAfter(Parent(last.name)) :
          /\ l.err = ErrNil
          /\ \E i \in DOMAIN l.entries : l.entries[i] = directoryFileInfo(Base(last.name))

(***************************************************************************)
(* Properties of the handles                                               *)
(***************************************************************************)

\* The caller has read the handle it opened to the end: the last Read on the
\* open read handle, reading from offset 0, returned io.EOF.
ReadToEOF ==
  /\ Returned("Read") /\ last.err = EOF
  /\ file.reader /\ ~file.closed
  /\ task.base = 0

\* The handle the caller reads is on the path it created last, the path was
\* fresh, the bytes were written with Write, and Close has returned nil.
ReadsWhatItWrote ==
  /\ FileKey(cfg, file) = sent.key
  /\ sent.fresh /\ ~sent.at /\ sent.closedNil

\* C1: Create on a fresh path, Write of the bytes, Close, then Open of the
\* path and Read to end-of-file returns exactly the bytes written, for every
\* length from 0 to several parts.
C1_RoundTrip ==
  (ReadToEOF /\ ReadsWhatItWrote) => got = sent.data

\* A round trip of as many bytes as fit, more than one part.
C1_Witness ==
  /\ ReadToEOF /\ ReadsWhatItWrote
  /\ got = sent.data
  /\ Len(got) = MaxLen /\ Len(got) > PartSize

\* C2: as long as Close has not been called on the handle Create returned,
\* the store is as it was at Create, whatever Write and WriteAt calls were
\* made: the store's content at the key changes only after Close is called.
C2_NothingVisibleBeforeClose ==
  (file.writer /\ ~sent.closeCalled) => store = sent.pre

\* A handle that is not closed, of which the upload has sent a part already.
C2_Witness ==
  /\ file.writer /\ ~sent.closeCalled
  /\ task.state = "running" /\ task.parts > 0
  /\ last.op = "WriteAt"
  /\ store = sent.pre

\* C3: when Close returns on a write handle, the upload has finished, and
\* Close returns nil if and only if the upload committed the object.
C3_CloseReturnsUploadOutcome ==
  (Returned("Close") /\ file.writer) =>
    /\ task.state \in {"done", "failed"}
    /\ (last.err = ErrNil) <=> (task.state = "done")

\* C19: unless the store fails the request, a Create of a path that Stat
\* reports as a directory, the root included, returns an already-exists
\* error, starts no upload and opens no pipe, and leaves the store unchanged.
C19_CreateRejectsDirectory ==
  [][(/\ pc = "idle" /\ pc' = "returned" /\ last'.op = "Create"
      /\ last'.err.kind # TransportErr("").kind
      /\ StatWithContext(store, cfg, last'.name, TRUE).err = ErrNil
      /\ StatWithContext(store, cfg, last'.name, TRUE).info.isDir) =>
       /\ last'.err = Err("fs.ErrExist", "named file is a directory")
       /\ UNCHANGED <<store, file, pipe, task, sent, handles>>]_vars

\* A Create of the root, rejected while the upload of an earlier handle runs.
C19_Witness ==
  /\ Returned("Create")
  /\ last.err = Err("fs.ErrExist", "named file is a directory")
  /\ cleanPath(last.name) = <<>>
  /\ file.writer /\ task.state = "running"

\* C20: no handle has both a reader and a writer; Read, ReadAt and Seek on a
\* handle from Create, and Write and WriteAt on a handle from Open, return a
\* closed-file error.
C20_ModesAreExclusive ==
  /\ ~(file.reader /\ file.writer)
  /\ (pc = "returned" /\ last.op \in {"Read", "ReadAt", "Seek"} /\ file.writer) =>
       last.err.kind = "fs.ErrClosed"
  /\ (pc = "returned" /\ last.op \in {"Write", "WriteAt"} /\ file.reader) =>
       last.err.kind = "fs.ErrClosed"

\* A Seek on a handle from Create, rejected while its upload runs.
C20_Witness ==
  /\ Returned("Seek") /\ file.writer /\ ~file.reader
  /\ last.err = Err("fs.ErrClosed", "seek only supported for reading")
  /\ task.kind = "upload" /\ task.state = "running"

\* The object a read handle reads, and whether the handle is open on an
\* object of the store and no request of its download was failed by the store.
Object == store[task.key]
ReadsObject ==
  /\ file.reader /\ ~file.closed
  /\ task.kind = "download" /\ task.key \in Keys(store)
  /\ ~StoreFailed

\* Whether the last call returned the n bytes of the object at offset off,
\* with io.EOF only when they reach the end of the object.
ReturnedBytesAt(off) ==
  /\ last.err \in {ErrNil, EOF}
  /\ last.bytes = SubSeq(Object, off + 1, off + last.n)
  /\ last.err = ErrNil => last.n > 0
  /\ last.err = EOF => off + last.n >= Len(Object)

\* C21: unless the store fails a request, ReadAt(b, off) on a read handle
\* returns the bytes of the object at the absolute offset off, in every
\* state of the handle, also after a Seek to an offset other than 0.
C21_ReadAtIsAbsolute ==
  (Returned("ReadAt") /\ ReadsObject) => ReturnedBytesAt(last.off)

\* C22: unless the store fails a request, the Read calls on a read handle
\* that follow a Seek to a target o, 0 <= o <= size, return the bytes of the
\* object from o on, in order, and end with io.EOF at the end of the object.
C22_ReadsFollowSeek ==
  (Returned("Read") /\ ReadsObject) =>
    /\ last.err \in {ErrNil, EOF}
    /\ got = SubSeq(Object, task.base + 1, task.base + Len(got))
    /\ last.err = EOF => task.base + Len(got) = Len(Object)

\* C23: Seek on a read handle to a target below 0 or above the size of the
\* object returns an invalid-argument error, starts no transfer, and leaves
\* the offset of the handle, its pipe and its transfer unchanged.
C23_SeekOutOfBounds ==
  [][(/\ pc = "idle" /\ pc' = "returned" /\ last'.op = "Seek"
      /\ file.reader
      /\ \/ SeekStart(file, last'.off, last'.whence) < 0
         \/ SeekStart(file, last'.off, last'.whence) > file.size) =>
       /\ last'.err = Err("fs.ErrInvalid", "seek")
       /\ UNCHANGED <<store, file, pipe, task, got, handles>>]_vars

\* A Seek relative to the end of the object, rejected while the download of
\* the handle runs.
C23_Witness ==
  /\ Returned("Seek") /\ last.err = Err("fs.ErrInvalid", "seek")
  /\ last.whence = "io.SeekEnd"
  /\ file.reader /\ task.kind = "download" /\ task.state = "running"

DownloadFailedAfterBytes ==
  /\ file.reader /\ ~file.closed
  /\ task.kind = "download" /\ task.state = "failed"
  /\ pipe.endln > 0

\* A Read or ReadAt call on the handle returns in this step.
ReadReturns ==
  /\ pc = "idle" /\ pc' = "returned"
  /\ last'.op \in {"Read", "ReadAt"}

\* C26 as stated: once the download of a read handle has failed after it
\* fetched bytes, every Read and ReadAt on the handle returns that failure.
C26_NextReadFails ==
  [][(ReadReturns /\ DownloadFailedAfterBytes) => last'.err = pipe.werr]_vars

\* C26: once the download of a read handle has failed after it fetched
\* bytes, a Read or ReadAt on the handle returns either bytes that were
\* fetched, without error, or that failure, and never a clean end-of-file.
C26_FailureIsNeverEOF ==
  [][(ReadReturns /\ DownloadFailedAfterBytes) =>
       /\ last'.err # EOF
       /\ pipe.werr \notin {ErrNil, EOF}
       /\ last'.err \in {ErrNil, pipe.werr}
       /\ last'.err = ErrNil => last'.n > 0]_vars

\* A Read that returned the bytes left in the pipe together with the failure
\* of the download.
C26_Witness ==
  /\ Returned("Read") /\ file.reader /\ ~file.closed
  /\ task.kind = "download" /\ task.state = "failed"
  /\ last.err = TransportErr("GetObject") /\ last.err = pipe.werr
  /\ last.n > 0 /\ Len(got) > 0

\* A Close call on a handle that was closed before returns in this step.
SecondCloseReturns ==
  /\ file.closed
  /\ pc # "returned" /\ pc' = "returned"
  /\ last'.op = "Close"

\* C27: a Close on a handle that is closed already, read or write, returns
\* nil and changes neither the handle nor the store.
C27_CloseIsIdempotent ==
  [][SecondCloseReturns =>
       /\ last'.err = ErrNil
       /\ UNCHANGED <<store, file, pipe, task, got, handles>>]_vars

\* An operation other than Close returns on a closed handle in this step.
OpOnClosedReturns ==
  /\ file.closed
  /\ pc = "idle" /\ pc' = "returned"
  /\ last'.op \in {"Read", "ReadAt", "Seek", "Write", "WriteAt"}

\* C28: an operation on a handle that has been closed (Read, ReadAt, Seek,
\* Write, WriteAt) fails, returns no bytes, accepts none, sends no request to
\* the store, starts no transfer and leaves the handle closed.
C28_ClosedIsTerminal ==
  [][OpOnClosedReturns =>
       /\ last'.err # ErrNil
       /\ last'.bytes = <<>>
       /\ last'.op # "Seek" => last'.n = 0
       /\ last'.reqs = <<>>
       /\ UNCHANGED <<store, file, pipe, task, got, handles>>]_vars

\* A Seek to an offset inside the object that a closed read handle rejected.
C28_Witness ==
  /\ Returned("Seek") /\ file.reader /\ file.closed
  /\ last.err = Err("os.ErrClosed", "file already closed")
  /\ SeekStart(file, last.off, last.whence) \in 0..file.size
  /\ handles < MaxHandles

\* C29: the kind of the error that ReadDir reports for a file differs from
\* the kind that Remove reports for a directory and from the kind that
\* RemoveDir reports for a directory that is not empty.
C29_KindsAreDistinct ==
  (Returned("ReadDir") /\ IsFileBefore(last.name) /\ ~StoreFailed) =>
    \A d \in Paths : IsDirBefore(d) =>
      /\ RemoveWithContext(last.pre, cfg, d, 0).err.kind # last.err.kind
      /\ \A r \in RemoveDirWithContext(last.pre, cfg, d, 0) :
           r.err # ErrNil => r.err.kind # last.err.kind

\* C30: cleanPath applied to the result of cleanPath gives that result
\* again, for every string, and cleanPath of "." and of "/" is the empty
\* path.
C30_CleanIsIdempotent ==
  /\ (pc = "returned" /\ last.op = "cleanPath") => last.info.name = last.name2
  /\ (pc # "idle" /\ last.op = "cleanPath" /\ last.name \in {currentDirName, pathSeparator}) =>
       last.name2 = <<>>

\* cleanPath has changed its input, "/./a", and has left its result alone.
C30_Witness ==
  /\ pc = "returned" /\ last.op = "cleanPath"
  /\ last.name = <<"/", ".", "/", "a">>
  /\ last.name2 = <<"a">> /\ last.info.name = <<"a">>

\* Whether s is one of the segments of the path p.
HasSegment(p, s) == \E i \in DOMAIN Split(p) : Split(p)[i] = s

\* C31: for every string, the result of cleanPath neither begins nor ends
\* with a separator and has no "." and no ".." segment.
C31_CleanIsNormalized ==
  (pc # "idle" /\ last.op = "cleanPath") =>
    /\ ~HasPrefix(last.name2, pathSeparator)
    /\ ~HasSuffix(last.name2, pathSeparator)
    /\ ~HasSegment(last.name2, currentDirName)
    /\ ~HasSegment(last.name2, DotDot)

\* C32: Stat of "", "." and "/" returns a directory of size 0 and sends no
\* request to the store, whatever the store holds, whatever the prefix, and
\* whether or not the store would fail a request.
C32_StatOfRoot ==
  (Returned("Stat") /\ last.name \in RootPaths) =>
    /\ last.err = ErrNil
    /\ last.info.isDir /\ last.info.size = 0
    /\ last.reqs = <<>>

\* Stat of "/" with a prefix configured and objects in the store.
C32_Witness ==
  /\ Returned("Stat") /\ last.name = pathSeparator
  /\ cfg.prefix # <<>> /\ Keys(store) # {}
  /\ last.err = ErrNil /\ last.info.isDir

\* The bytes the pipe holds for its consumer: fetched by the download and
\* not read by the caller, or written by the caller and not read by the
\* upload.
Buffered ==
  CASE task.kind = "download" -> pipe.endln - pipe.readeroff
    [] task.kind = "upload" -> pipe.endln - task.off
    [] OTHER -> 0

\* C33: the pipe never holds more than one part for its consumer, however
\* large the object is: the producer waits for the consumer.
C33_BufferIsBounded == Buffered <= PartSize

\* C34: with a timeout configured, a listing of a directory that the store
\* does not fail returns without error, with the entries that the same
\* listing returns when no timeout is configured, over however many pages.
C34_EveryPageIsFetched ==
  (Returned("ReadDir") /\ cfg.timeout /\ IsDirBefore(last.name) /\ ~StoreFailed) =>
    /\ last.err = ErrNil
    /\ \E r \in ReadDirWithContext(last.pre, [cfg EXCEPT !.timeout = FALSE], last.name, 0) :
         r.entries = last.entries

\* The object that was at key(name) before the call is at key(name) now.
KeptAt(name) ==
  /\ Key(name) \in Keys(store)
  /\ store[Key(name)] = last.pre[Key(last.name)]

\* C35: in every state during and after Rename(old, new), whatever request
\* fails, the object that was at key(old) before the call is at key(old) or
\* at key(new).
C35_RenameKeepsObject ==
  (/\ last.op = "Rename" /\ pc \in {"RenameRemove", "returned"}
   /\ Key(last.name) \in Keys(last.pre)) =>
    KeptAt(last.name) \/ KeptAt(last.name2)

\* Whether a key, or the prefix of a listing, lies under the configured
\* prefix.
UnderPrefix(k) ==
  \/ cfg.prefix = <<>>
  \/ k = cfg.prefix
  \/ HasPrefix(k, cfg.prefix \o pathSeparator)

\* The keys and listing prefixes that a request addresses.
Addressed(req) ==
  CASE req.op = "ListObjectsV2" -> {req.prefix}
    [] req.op = "CopyObject" -> {req.src, req.key}
    [] OTHER -> {req.key}

\* C36: every request that an operation of the facade sends to the store
\* addresses keys and listing prefixes under the configured prefix only.
C36_RequestsStayUnderPrefix ==
  pc = "returned" =>
    \A i \in DOMAIN last.reqs : \A k \in Addressed(last.reqs[i]) : UnderPrefix(k)

\* C37: from an empty store, under Create with writes and Close, CreateDir,
\* Remove, RemoveDir and Rename applied one at a time, no key of the store
\* has another key of the store under it: no path is a file and a directory.
C37_NoFileIsADirectory ==
  \A k \in Keys(store) : \A k2 \in Keys(store) : ~HasPrefix(k2, k \o pathSeparator)

\* C38: a read handle has at most one download whose context is not
\* cancelled, and none once it is closed.
C38_OneDownloadAtMost ==
  file.reader =>
    /\ Uncancelled(task) <= 1
    /\ file.closed => Uncancelled(task) = 0

\* A Seek has replaced the download that Open started by a new one, which
\* is running.
C38_Witness ==
  /\ Returned("Seek") /\ last.err = ErrNil /\ file.reader /\ ~file.closed
  /\ handles = MaxHandles /\ MaxHandles > 1
  /\ task.kind = "download" /\ task.state = "running"
  /\ Uncancelled(task) = 1

\* C39: on a read handle the offset that the handle tracks is the offset of
\* the last Open or Seek that succeeded plus the number of bytes that the
\* Read calls since have returned, with or without an error.
C39_OffsetTracksReads ==
  file.reader => file.offset = task.base + Len(got)

====
